---- MODULE Spec2Model ----
(***************************************************************************)
(* Backtest simulators and performance aggregators of the Coinone/Bybit    *)
(* scalping-bot analysis scripts.                                          *)
(*                                                                         *)
(*   coinone_xrp_backtest.py   strategy_bollinger_bands, strategy_rsi,     *)
(*                             strategy_ema_crossover, strategy_combined,  *)
(*                             analyze_trades, print_results               *)
(*   analysis_comprehensive.py ComprehensiveAnalyzer.backtest_strategy     *)
(*   coinone_strategy_backtest.py backtest_strategy, detect_trend,         *)
(*                             check_uptrend_entry, check_sideways_entry,  *)
(*                             calculate_rsi, calculate_ema,               *)
(*                             calculate_bollinger_bands,                  *)
(*                             calculate_volume_ma                         *)
(*   debug_bot_logic.py        check_sideways_conditions                   *)
(*   analyze_bot_timing.py     the scoring loop and its entry windows      *)
(*                                                                         *)
(* Five specifications: Spec runs the simulators over rows whose column    *)
(* values are drawn freely, IndicatorSpec calls the indicator and          *)
(* classification functions on their own, BacktestSpec runs a strategy_*   *)
(* simulator over the columns calculate_all_indicators computes,           *)
(* CombinedSpec runs strategy_combined with every row it reads kept, and   *)
(* TimingSpec runs the walk of analyze_bot_timing.                         *)
(*                                                                         *)
(* Python floats are modelled by exact rationals <<numerator, denominator>>*)
(* in lowest terms with a positive denominator.  A DataFrame row is read   *)
(* when the loop reaches it: the loop bodies only ever index df at i, i-1  *)
(* and len(df)-1, so the state keeps the columns of those rows it needs.   *)
(* A missing value (pandas NaN) is the value NaN; every comparison with it *)
(* is false, as in IEEE-754.                                               *)
(***************************************************************************)
EXTENDS Integers, Sequences, FiniteSets, TLC

VARIABLES
    strategy,         \* which simulator runs
    n,                \* len(df) / len(self.candles)
    initial_capital,  \* argument initial_capital
    position_size,    \* argument position_size
    fee_rate,         \* argument fee_rate (0 for the simulators without fees)
    tp_percent,       \* argument tp_percent of backtest_strategy
    sl_percent,       \* argument sl_percent of backtest_strategy
    conditions,       \* argument entry_conditions of backtest_strategy
    pc,               \* position in the program
    i,                \* loop index
    capital,          \* local capital
    position,         \* local position (quantity held)
    entry_price,      \* local entry_price
    in_position,      \* local in_position of backtest_strategy
    entry_index,      \* local entry_index of backtest_strategy
    trades,           \* local trades
    lastClose,        \* df.loc[k, 'Close'] of the last row read so far
    prevEma9,         \* df.loc[i-1, 'EMA_9']
    prevEma21,        \* df.loc[i-1, 'EMA_21']
    visited,          \* indices the loop body has run at, in order
    reads,            \* row indices the last loop body consulted
    result,           \* the summary returned by the aggregator, or the value
                      \* returned by the function called
    uptrend_entries,  \* local uptrend_entries of the entry-opportunity backtest
    sideways_entries, \* local sideways_entries of the entry-opportunity backtest
    closes,           \* df['Close'] of the DataFrame the simulator is given
    call,             \* the function called, with its arguments
    df_row,           \* the columns of row i the last loop body read
    entry_windows,    \* local entry_windows of analyze_bot_timing
    current_window,   \* local current_window of analyze_bot_timing
    analysed          \* the rows analyze_bot_timing has scored: <<idx, is_entry>>

vars == <<strategy, n, initial_capital, position_size, fee_rate, tp_percent,
          sl_percent, conditions, pc, i, capital, position, entry_price,
          in_position, entry_index, trades, lastClose, prevEma9, prevEma21,
          visited, reads, result, uptrend_entries, sideways_entries, closes,
          call, df_row, entry_windows, current_window, analysed>>

params == <<strategy, n, initial_capital, position_size, fee_rate, tp_percent,
            sl_percent, conditions, closes, call>>

\* the locals of the entry-window tracker of analyze_bot_timing
timing == <<entry_windows, current_window, analysed>>

(***************************************************************************)
(* Bounds of the model.                                                    *)
(***************************************************************************)
\* the largest number of rows the loop of a strategy_* simulator runs over
MaxLen == 3

\* the largest number of candles the loop of backtest_strategy runs over
MaxCandles == 4

\* the largest number of candles the loop of the entry-opportunity backtest
\* runs over
MaxEntryRows == 2

\* the largest length of a price list an indicator function is called with
MaxPrices == 4

\* the largest number of rows of a flat series of closes
MaxFlat == 21

\* the largest number of rows detect_trend is called at in a row
MaxRegimes == 2

\* the largest number of rows strategy_combined walks with its rows kept
MaxCombinedRows == 2

\* the largest number of recent candles analyze_bot_timing walks over
MaxRecent == 4

(***************************************************************************)
(* Exact arithmetic standing for Python's float operators.                 *)
(***************************************************************************)
Abs(x) == IF x < 0 THEN -x ELSE x

RECURSIVE GCD(_, _)
GCD(a, b) == IF b = 0 THEN a ELSE GCD(b, a % b)

Rat(num, den) ==
    LET g == GCD(Abs(num), Abs(den))
        s == IF den < 0 THEN -1 ELSE 1
    IN  <<(s * num) \div g, (s * den) \div g>>

RInt(k) == <<k, 1>>
RZero == RInt(0)

\* a * b
RMul(a, b) ==
    LET g1 == GCD(Abs(a[1]), b[2])
        g2 == GCD(Abs(b[1]), a[2])
    IN  IF a[1] = 0 \/ b[1] = 0 THEN RZero
        ELSE <<(a[1] \div g1) * (b[1] \div g2), (a[2] \div g2) * (b[2] \div g1)>>

\* a / b, b # 0
RDiv(a, b) ==
    RMul(a, IF b[1] < 0 THEN <<-b[2], -b[1]>> ELSE <<b[2], b[1]>>)

\* a + b
RAdd(a, b) ==
    LET g == GCD(a[2], b[2])
        l == (a[2] \div g) * b[2]
    IN  Rat(a[1] * (l \div a[2]) + b[1] * (l \div b[2]), l)

\* -a
RNeg(a) == <<-a[1], a[2]>>

\* a - b
RSub(a, b) == RAdd(a, RNeg(b))

\* abs(a)
RAbs(a) == <<Abs(a[1]), a[2]>>

RLt(a, b) == RSub(a, b)[1] < 0
RLe(a, b) == RSub(a, b)[1] <= 0
RGt(a, b) == RLt(b, a)
RGe(a, b) == RLe(b, a)

ROne == RInt(1)

RECURSIVE SumRange(_, _, _)
\* xs[lo] + ... + xs[hi], added pairwise (the arithmetic is exact, so the
\* order of the additions does not matter)
SumRange(xs, lo, hi) ==
    IF lo > hi THEN RZero
    ELSE IF lo = hi THEN xs[lo]
    ELSE LET mid == (lo + hi) \div 2
         IN  RAdd(SumRange(xs, lo, mid), SumRange(xs, mid + 1, hi))

\* sum(xs) of a list of numbers
RSum(xs) == SumRange(xs, 1, Len(xs))

\* statistics.mean(xs) / np.mean(xs), xs not empty
RMean(xs) == RDiv(RSum(xs), RInt(Len(xs)))

RECURSIVE RMax(_)
\* max(xs), xs not empty
RMax(xs) ==
    IF Len(xs) = 1 THEN Head(xs)
    ELSE LET m == RMax(Tail(xs)) IN IF RGe(Head(xs), m) THEN Head(xs) ELSE m

RECURSIVE RMin(_)
\* min(xs), xs not empty
RMin(xs) ==
    IF Len(xs) = 1 THEN Head(xs)
    ELSE LET m == RMin(Tail(xs)) IN IF RLe(Head(xs), m) THEN Head(xs) ELSE m

(***************************************************************************)
(* Missing values.                                                         *)
(***************************************************************************)
\* a missing value among the integers the column values are drawn from;
\* indicator and price values are never negative
NaN == -1

\* the drawn value x is the missing one
IsNa(x) == x = NaN

\* the float nan, +inf and -inf: "fractions" with denominator 0
FNaN == <<0, 0>>
PosInf == <<1, 0>>
NegInf == <<-1, 0>>

\* pd.isna(x) / math.isnan(x)
IsNaN(x) == x = FNaN

\* x is a finite float
IsFinite(x) == x[2] # 0

\* the float of a drawn column value
Float(x) == IF IsNa(x) THEN FNaN ELSE RInt(x)

\* x < y, x > y, x <= y, x >= y on floats: false when either side is nan
Lt(x, y) == ~IsNaN(x) /\ ~IsNaN(y) /\ RLt(x, y)
Gt(x, y) == ~IsNaN(x) /\ ~IsNaN(y) /\ RGt(x, y)
Le(x, y) == ~IsNaN(x) /\ ~IsNaN(y) /\ RLe(x, y)
Ge(x, y) == ~IsNaN(x) /\ ~IsNaN(y) /\ RGe(x, y)

\* x <= y * (num / den) and x >= y * (num / den), x a price, y a float
LeScaled(x, y, num, den) ==
    ~IsNaN(y) /\ RLe(RInt(x), RMul(y, Rat(num, den)))
GeScaled(x, y, num, den) ==
    ~IsNaN(y) /\ RGe(RInt(x), RMul(y, Rat(num, den)))

(***************************************************************************)
(* Float arithmetic where a nan or an infinity can arise.                  *)
(***************************************************************************)
\* -x
FNeg(x) == IF IsFinite(x) THEN RNeg(x) ELSE <<-x[1], 0>>

\* x + y
FAdd(x, y) ==
    IF IsNaN(x) \/ IsNaN(y) THEN FNaN
    ELSE IF ~IsFinite(x) THEN (IF ~IsFinite(y) /\ y # x THEN FNaN ELSE x)
    ELSE IF ~IsFinite(y) THEN y
    ELSE RAdd(x, y)

\* x - y
FSub(x, y) == FAdd(x, FNeg(y))

\* x / y as numpy divides: x/0 is an infinity, 0/0 is nan
FDiv(x, y) ==
    IF IsNaN(x) \/ IsNaN(y) THEN FNaN
    ELSE IF ~IsFinite(y) THEN (IF ~IsFinite(x) THEN FNaN ELSE RZero)
    ELSE IF ~IsFinite(x) THEN (IF y[1] < 0 THEN FNeg(x) ELSE x)
    ELSE IF y = RZero
         THEN (IF x = RZero THEN FNaN
               ELSE IF x[1] > 0 THEN PosInf ELSE NegInf)
    ELSE RDiv(x, y)

\* Python's None, returned where a value cannot be computed
None == <<0, -1>>

\* a finite float that is not a fraction (the square root of a non-square)
Surd == <<1, -1>>

\* k is the square of a natural number
IsSquare(k) == \E r \in 0 .. k : r * r = k

\* x ** 0.5 / the square root taken by rolling(...).std(), x >= 0
Sqrt(x) ==
    IF IsSquare(x[1]) /\ IsSquare(x[2])
    THEN <<CHOOSE r \in 0 .. x[1] : r * r = x[1],
           CHOOSE r \in 0 .. x[2] : r * r = x[2]>>
    ELSE Surd

\* x * y and x + y, x - y where x or y may be a Surd
SMul(x, y) == IF x = Surd \/ y = Surd THEN Surd ELSE RMul(x, y)
SAdd(x, y) == IF x = Surd \/ y = Surd THEN Surd ELSE RAdd(x, y)
SSub(x, y) == IF x = Surd \/ y = Surd THEN Surd ELSE RSub(x, y)

(***************************************************************************)
(* The indicator functions over lists of coinone_strategy_backtest.py.     *)
(* A list is a sequence; the Python index k is the place k + 1.            *)
(***************************************************************************)
\* xs[:k]
Take(xs, k) == SubSeq(xs, 1, IF k < Len(xs) THEN k ELSE Len(xs))

\* xs[-k:], 0 < k
LastN(xs, k) == SubSeq(xs, IF k < Len(xs) THEN Len(xs) - k + 1 ELSE 1, Len(xs))

\* the list of the numbers of xs as fractions
Floats(xs) == [k \in 1 .. Len(xs) |-> RInt(xs[k])]

\* gains and losses of calculate_rsi: one entry per change (whole numbers,
\* the prices being whole numbers)
Gains(prices) ==
    [k \in 1 .. Len(prices) - 1 |->
        LET change == prices[k + 1] - prices[k]
        IN  IF change > 0 THEN change ELSE 0]
Losses(prices) ==
    [k \in 1 .. Len(prices) - 1 |->
        LET change == prices[k + 1] - prices[k]
        IN  IF change > 0 THEN 0 ELSE Abs(change)]

RECURSIVE SumLast(_, _)
\* sum(xs[-k:]) of whole numbers, 0 <= k <= Len(xs)
SumLast(xs, k) ==
    IF k = 0 THEN 0 ELSE xs[Len(xs) - k + 1] + SumLast(xs, k - 1)

\* the RSI with "100 -" forgotten
RsiComplement(prices, period) ==
    IF Len(prices) < period + 1 THEN None
    ELSE LET avg_gain == Rat(SumLast(Gains(prices), period), period)
             avg_loss == Rat(SumLast(Losses(prices), period), period)
         IN  IF avg_loss = RZero THEN RInt(100)
             ELSE RDiv(RInt(100), RAdd(ROne, RDiv(avg_gain, avg_loss)))

\* calculate_rsi(prices, period) of coinone_strategy_backtest.py
calculate_rsi(prices, period) ==
    IF Len(prices) < period + 1 THEN None
    ELSE LET avg_gain == Rat(SumLast(Gains(prices), period), period)
             avg_loss == Rat(SumLast(Losses(prices), period), period)
         IN  IF avg_loss = RZero THEN RInt(100)
             ELSE LET rs == RDiv(avg_gain, avg_loss)
                  IN  RSub(RInt(100), RDiv(RInt(100), RAdd(ROne, rs)))

RECURSIVE EmaLoop(_, _, _, _)
\* for price in prices[k:]: ema = (price - ema) * multiplier + ema
EmaLoop(ema, prices, k, multiplier) ==
    IF k >= Len(prices) THEN ema
    ELSE EmaLoop(RAdd(RMul(RSub(RInt(prices[k + 1]), ema), multiplier), ema),
                 prices, k + 1, multiplier)

\* calculate_ema(prices, period)
calculate_ema(prices, period) ==
    IF Len(prices) < period THEN None
    ELSE LET sma == RDiv(RSum(Floats(Take(prices, period))), RInt(period))
             multiplier == Rat(2, period + 1)
         IN  EmaLoop(sma, prices, period, multiplier)

\* calculate_bollinger_bands(prices, period, std_dev): <<upper, middle, lower>>
calculate_bollinger_bands(prices, period, std_dev) ==
    IF Len(prices) < period THEN <<None, None, None>>
    ELSE LET recent_prices == Floats(LastN(prices, period))
             middle == RDiv(RSum(recent_prices), RInt(period))
             variance ==
                 RDiv(RSum([k \in 1 .. period |->
                              LET d == RSub(recent_prices[k], middle)
                              IN  RMul(d, d)]),
                      RInt(period))
             std == Sqrt(variance)
         IN  <<SAdd(middle, SMul(std, std_dev)), middle,
               SSub(middle, SMul(std, std_dev))>>

\* calculate_volume_ma(volumes, period)
calculate_volume_ma(volumes, period) ==
    IF Len(volumes) < period THEN None
    ELSE RDiv(RSum(Floats(LastN(volumes, period))), RInt(period))

\* volume_ratio = volume / volume_ma5 if volume_ma5 > 0 else 1.0
VolumeRatio(volume, volume_ma5) ==
    IF RGt(volume_ma5, RZero) THEN RDiv(RInt(volume), volume_ma5) ELSE ROne

\* ComprehensiveAnalyzer.analyze_volume_profile() with self.volumes = volumes,
\* a list that is not empty (volumes[-1] raises IndexError on an empty one)
analyze_volume_profile(volumes) ==
    LET len == Len(volumes)
        avg_volume == RMean(Floats(volumes))
        current_volume == RInt(volumes[len])
        \* the changes volumes[k] - volumes[k-1] of the last 10 rows, k > 0
        first == IF len - 10 > 1 THEN len - 10 ELSE 1
        volume_trend == [k \in 1 .. len - first |->
                           volumes[first + k] - volumes[first + k - 1]]
    IN  [avg_volume |-> avg_volume,
         current_volume |-> current_volume,
         volume_ratio |-> IF RGt(avg_volume, RZero)
                          THEN RDiv(current_volume, avg_volume) ELSE RZero,
         volume_increasing |-> IF volume_trend # <<>>
                               THEN SumLast(volume_trend, Len(volume_trend)) > 0
                               ELSE FALSE,
         high_volume_breakout |->
             RGt(current_volume, RMul(avg_volume, <<3, 2>>))]

(***************************************************************************)
(* The indicator columns of coinone_xrp_backtest.py, computed by pandas    *)
(* from df['Close'].  A column is a sequence; row k is the place k + 1.    *)
(***************************************************************************)
\* xs.rolling(window=window).mean(): nan until window rows exist
RollingMean(xs, window) ==
    [k \in 1 .. Len(xs) |->
        IF k < window THEN FNaN
        ELSE RDiv(SumRange(xs, k - window + 1, k), RInt(window))]

\* xs.rolling(window=window).std(): the sample standard deviation (ddof=1)
RollingStd(xs, window) ==
    [k \in 1 .. Len(xs) |->
        IF k < window \/ window < 2 THEN FNaN
        ELSE LET w == SubSeq(xs, k - window + 1, k)
                 m == RDiv(RSum(w), RInt(window))
             IN  Sqrt(RDiv(RSum([j \in 1 .. window |->
                                   LET d == RSub(w[j], m) IN RMul(d, d)]),
                           RInt(window - 1)))]

\* df['Close'].diff(): nan in the first row
Diff(xs) ==
    [k \in 1 .. Len(xs) |-> IF k = 1 THEN FNaN ELSE RSub(xs[k], xs[k - 1])]

\* calculate_bollinger_bands(df, period, std_dev): the columns it adds
calculate_bollinger_bands_df(close, period, std_dev) ==
    LET mid == RollingMean(Floats(close), period)
        std == RollingStd(Floats(close), period)
        band(k, sign) ==
            IF IsNaN(mid[k]) \/ IsNaN(std[k]) THEN FNaN
            ELSE IF sign > 0 THEN SAdd(mid[k], SMul(std_dev, std[k]))
            ELSE SSub(mid[k], SMul(std_dev, std[k]))
    IN  [BB_Middle |-> mid,
         BB_Std |-> std,
         BB_Upper |-> [k \in 1 .. Len(close) |-> band(k, 1)],
         BB_Lower |-> [k \in 1 .. Len(close) |-> band(k, -1)]]

\* calculate_rsi(df, period): the column RSI
calculate_rsi_df(close, period) ==
    LET delta == Diff(Floats(close))
        \* delta.where(delta > 0, 0) and -delta.where(delta < 0, 0)
        up == [k \in 1 .. Len(close) |->
                 IF Gt(delta[k], RZero) THEN delta[k] ELSE RZero]
        down == [k \in 1 .. Len(close) |->
                 IF Lt(delta[k], RZero) THEN RNeg(delta[k]) ELSE RZero]
        gain == RollingMean(up, period)
        loss == RollingMean(down, period)
    IN  [k \in 1 .. Len(close) |->
           LET rs == FDiv(gain[k], loss[k])
           IN  FSub(RInt(100), FDiv(RInt(100), FAdd(ROne, rs)))]

RECURSIVE Ewm(_, _, _)
\* xs.ewm(span=span, adjust=False).mean() at place k:
\* y[1] = x[1], y[k] = (1 - alpha) * y[k-1] + alpha * x[k], alpha = 2/(span+1)
Ewm(xs, span, k) ==
    IF k = 1 THEN xs[1]
    ELSE LET alpha == Rat(2, span + 1)
         IN  CHOOSE y \in {RAdd(RMul(RSub(ROne, alpha), prev),
                                RMul(alpha, xs[k])) :
                             prev \in {Ewm(xs, span, k - 1)}} : TRUE

\* calculate_ema(df, [period]): the column EMA_<period>
calculate_ema_df(close, period) ==
    [k \in 1 .. Len(close) |-> Ewm(Floats(close), period, k)]

(***************************************************************************)
(* Inputs.                                                                 *)
(***************************************************************************)
Strategies ==
    {"bollinger_bands", "rsi", "ema_crossover", "combined", "analyzer",
     "entry_opportunity"}
Simulators == {"bollinger_bands", "rsi", "ema_crossover", "combined"}

\* closing prices of a row
Closes == {90, 100, 110}

\* argument position_size: 1.0 and a fraction below 1
PositionSizes == {<<1, 1>>, <<1, 2>>}

\* argument fee_rate of strategy_combined
FeeRates == {<<0, 1>>, <<1, 10>>}

\* argument initial_capital
InitialCapitals == {100000}

\* column values of a row; NaN is a value not yet defined
BBLowers == {NaN, 95, 100}
BBMiddles == {100, 105}
BBUppers == {110}
Rsis == {NaN, 20, 50, 80}
Ema9s == {NaN, 1, 2, 3}
\* column EMA_9 as strategy_combined uses it: compared with its previous row
SlopeEma9s == {NaN, 1, 3}
Ema21s == {NaN, 2}
Ema50s == {NaN, 1, 3}
Ema200s == {NaN, 2}

\* arguments (tp_percent, sl_percent) of backtest_strategy: the pair
\* analyze_symbol passes (0.5, 0.3), a zero stop-loss and a wide pair
TpSls == {<<(<<1, 2>>), (<<3, 10>>)>>, <<(<<1, 2>>), (<<0, 1>>)>>,
          <<(<<15, 1>>), (<<15, 1>>)>>}

\* argument entry_conditions of backtest_strategy: the three dictionaries
\* analyze_symbol passes
EntryConditions ==
    {[rsi14_min |-> 30, rsi14_max |-> 50, rsi6_max |-> 30],
     [rsi14_min |-> 40, rsi14_max |-> 60],
     [rsi14_min |-> 35, rsi14_max |-> 55, rsi6_min |-> 25, rsi6_max |-> 40]}

\* the candles of self.candles: a close and, under either spelling or not
\* at all, the RSI values
Rsi14Fields == {<<>>, [rsi14 |-> 25], [rsi14 |-> 45], [rsi_14 |-> 45]}
Rsi6Fields == {<<>>, [rsi6 |-> 20], [rsi_6 |-> 35]}
Candles ==
    {[close |-> c] @@ r14 @@ r6 :
        c \in Closes, r14 \in Rsi14Fields, r6 \in Rsi6Fields}

\* rsi_low and rsi_high, the defaults of strategy_rsi
rsi_low == 30
rsi_high == 70

\* the first index each loop visits
LoopStart(s) ==
    CASE s \in {"bollinger_bands", "rsi"} -> 0
      [] s \in {"ema_crossover", "combined"} -> 1
      [] s = "analyzer" -> 20
      [] s = "entry_opportunity" -> 200

\* the number of rows the loop runs over is bounded per simulator
MaxRows(s) ==
    CASE s = "analyzer" -> MaxCandles
      [] s = "entry_opportunity" -> MaxEntryRows
      [] OTHER -> MaxLen

(***************************************************************************)
(* Trade records.  The timestamp of row k is modelled by k; the purely     *)
(* diagnostic keys (rsi, ema50, ema200, signal, trend) are left out.       *)
(***************************************************************************)
BuyTrade(ts, price, quantity, cap) ==
    [timestamp |-> ts, type |-> "BUY", price |-> price,
     quantity |-> quantity, capital |-> cap]

SellTrade(ts, price, quantity, profit, cap) ==
    [timestamp |-> ts, type |-> "SELL", price |-> price,
     quantity |-> quantity, profit |-> profit, capital |-> cap]

SellTradeReason(ts, price, quantity, profit, cap, reason) ==
    [timestamp |-> ts, type |-> "SELL", price |-> price,
     quantity |-> quantity, profit |-> profit, capital |-> cap,
     exit_reason |-> reason]

(***************************************************************************)
(* Arithmetic of an entry and of an exit.                                  *)
(***************************************************************************)
\* quantity = (capital * position_size) / close
QuantityNoFee(cap, ps, close) == RDiv(RMul(cap, ps), RInt(close))

\* the quantity bought with the fee forgotten
QuantityFeeForgotten(cap, ps, fee, close) == RDiv(RMul(cap, ps), RInt(close))

\* effective_capital = capital * (1 - fee_rate)
\* quantity = (effective_capital * position_size) / close
QuantityWithFee(cap, ps, fee, close) ==
    RDiv(RMul(RMul(cap, RSub(ROne, fee)), ps), RInt(close))

\* capital = position * close
ProceedsNoFee(pos, close) == RMul(pos, RInt(close))

\* profit = (close - entry_price) * position
ProfitNoFee(pos, entry, close) == RMul(RSub(RInt(close), entry), pos)

\* gross_proceeds = position * close; capital = gross_proceeds * (1 - fee_rate)
ProceedsWithFee(pos, fee, close) ==
    RMul(RMul(pos, RInt(close)), RSub(ROne, fee))

\* the profit with the fee on the entry side forgotten
ProfitEntryFeeForgotten(cap, pos, entry, fee) == RSub(cap, RMul(entry, pos))

\* profit = capital - (entry_price * position * (1 - fee_rate))
ProfitWithFee(cap, pos, entry, fee) ==
    RSub(cap, RMul(RMul(entry, pos), RSub(ROne, fee)))

\* the entry guard with the test of the position forgotten
IsFlatUnchecked(pos) == TRUE

\* position == 0, the guard of every entry
IsFlat(pos) == pos = RZero

\* the exit guard with the test of the position forgotten
IsLongUnchecked(pos) == TRUE

\* position > 0, the guard of every exit and of the forced close
IsLong(pos) == RGt(pos, RZero)

\* the index of the row after the current one
NextRowIdx(k) == k + 1

\* the index of the previous row, df.loc[i-1, ...]
PrevIdx(k) == k - 1

\* the index of the last row, df.loc[len(df)-1, ...]
LastIdx(len) == len - 1

\* the next value of the loop variable of "for i in range(...)"
NextIdx(k) == k + 1

(***************************************************************************)
(* The state after construction: the arguments are bound, the locals are   *)
(* initialised and the loop is about to start.                             *)
(***************************************************************************)
Init ==
    /\ strategy \in Strategies
    /\ n \in {0} \cup (LoopStart(strategy) .. LoopStart(strategy) + MaxRows(strategy))
    /\ initial_capital \in InitialCapitals
    /\ position_size \in
         IF strategy = "analyzer" THEN {ROne} ELSE PositionSizes
    /\ fee_rate \in IF strategy = "combined" THEN FeeRates ELSE {RZero}
    /\ \E tpsl \in IF strategy = "analyzer" THEN TpSls ELSE {<<RZero, RZero>>} :
         /\ tp_percent = tpsl[1]
         /\ sl_percent = tpsl[2]
    /\ conditions \in IF strategy = "analyzer" THEN EntryConditions ELSE {<<>>}
    /\ pc = "loop"
    /\ i = LoopStart(strategy)
    /\ capital = RInt(initial_capital)
    /\ position = RZero
    /\ entry_price = RZero
    /\ in_position = FALSE
    /\ entry_index = 0
    /\ trades = <<>>
    /\ lastClose = NaN
    /\ prevEma9 \in
         IF strategy = "ema_crossover" /\ n > 1
         THEN {Float(x) : x \in Ema9s}
         ELSE IF strategy = "combined" /\ n > 1
         THEN {Float(x) : x \in SlopeEma9s}
         ELSE {FNaN}
    /\ prevEma21 \in
         IF strategy = "ema_crossover" /\ n > 1
         THEN {Float(x) : x \in Ema21s} ELSE {FNaN}
    /\ visited = <<>>
    /\ reads = {}
    /\ result = <<>>
    /\ uptrend_entries = <<>>
    /\ sideways_entries = <<>>
    /\ closes = <<>>
    /\ call = <<>>
    /\ df_row = <<>>
    /\ entry_windows = <<>>
    /\ current_window = <<>>
    /\ analysed = <<>>

\* what every loop body does besides trading: it has read row i and moves on
Proceed(close, ema9, ema21, consulted) ==
    /\ i' = NextIdx(i)
    /\ lastClose' = close
    /\ prevEma9' = ema9
    /\ prevEma21' = ema21
    /\ visited' = Append(visited, i)
    /\ reads' = consulted
    /\ UNCHANGED <<params, timing, pc, in_position, entry_index, result,
                   uptrend_entries, sideways_entries>>

\* the same, the columns of the row not being kept
Advance(close, ema9, ema21, consulted) ==
    /\ Proceed(close, ema9, ema21, consulted)
    /\ UNCHANGED df_row

Hold == UNCHANGED <<capital, position, entry_price, trades>>

(***************************************************************************)
(* strategy_bollinger_bands: one iteration of the loop.                    *)
(***************************************************************************)
\* the body of the loop at a row with these column values
BollingerRow(close, bb_lower, bb_middle) ==
    IF IsNaN(bb_lower) THEN Hold
    ELSE IF IsFlat(position) /\ LeScaled(close, bb_lower, 1001, 1000)
    THEN LET quantity == QuantityNoFee(capital, position_size, close)
         IN  /\ position' = quantity
             /\ entry_price' = RInt(close)
             /\ trades' = Append(trades, BuyTrade(i, close, quantity, capital))
             /\ UNCHANGED capital
    ELSE IF IsLong(position) /\ GeScaled(close, bb_middle, 999, 1000)
    THEN LET cap == ProceedsNoFee(position, close)
             profit == ProfitNoFee(position, entry_price, close)
         IN  /\ capital' = cap
             /\ trades' = Append(trades,
                                 SellTrade(i, close, position, profit, cap))
             /\ position' = RZero
             /\ entry_price' = RZero
    ELSE Hold

BollingerStep ==
    /\ pc = "loop"
    /\ strategy = "bollinger_bands"
    /\ i < n
    /\ \E close \in Closes, bb_lower \in BBLowers, bb_middle \in BBMiddles :
         /\ BollingerRow(close, Float(bb_lower), Float(bb_middle))
         /\ Advance(close, FNaN, FNaN, {i})

(***************************************************************************)
(* "Close any open position" and return trades, capital.                   *)
(***************************************************************************)
ForcedClose ==
    /\ pc = "loop"
    /\ strategy \in Simulators
    /\ i >= n
    /\ IF IsLong(position)
       THEN LET close == lastClose
                cap == IF strategy = "combined"
                       THEN ProceedsWithFee(position, fee_rate, close)
                       ELSE ProceedsNoFee(position, close)
                profit == IF strategy = "combined"
                          THEN ProfitWithFee(cap, position, entry_price, fee_rate)
                          ELSE ProfitNoFee(position, entry_price, close)
            IN  /\ capital' = cap
                /\ trades' = Append(trades,
                     IF strategy = "combined"
                     THEN SellTradeReason(LastIdx(n), close, position, profit,
                                          cap, "END")
                     ELSE SellTrade(LastIdx(n), close, position, profit, cap))
                /\ reads' = {LastIdx(n)}
       ELSE UNCHANGED <<capital, trades, reads>>
    /\ pc' = "done"
    /\ UNCHANGED <<params, df_row, timing, i, position, entry_price, in_position, entry_index,
                   lastClose, prevEma9, prevEma21, visited, result,
                   uptrend_entries, sideways_entries>>

(***************************************************************************)
(* strategy_rsi: one iteration of the loop.                                *)
(***************************************************************************)
\* the body of the loop at a row with these column values
RsiRow(close, rsi) ==
    IF IsNaN(rsi) THEN Hold
    ELSE IF IsFlat(position) /\ Lt(rsi, RInt(rsi_low))
    THEN LET quantity == QuantityNoFee(capital, position_size, close)
         IN  /\ position' = quantity
             /\ entry_price' = RInt(close)
             /\ trades' = Append(trades, BuyTrade(i, close, quantity, capital))
             /\ UNCHANGED capital
    ELSE IF IsLong(position) /\ Gt(rsi, RInt(rsi_high))
    THEN LET cap == ProceedsNoFee(position, close)
             profit == ProfitNoFee(position, entry_price, close)
         IN  /\ capital' = cap
             /\ trades' = Append(trades,
                                 SellTrade(i, close, position, profit, cap))
             /\ position' = RZero
             /\ entry_price' = RZero
    ELSE Hold

RsiStep ==
    /\ pc = "loop"
    /\ strategy = "rsi"
    /\ i < n
    /\ \E close \in Closes, rsi \in Rsis :
         /\ RsiRow(close, Float(rsi))
         /\ Advance(close, FNaN, FNaN, {i})

(***************************************************************************)
(* strategy_ema_crossover: one iteration of the loop.                      *)
(***************************************************************************)
\* the bullish cross with the equality of the previous row left out
CrossedAboveStrict(ema9_prev, ema21_prev, ema9, ema21) ==
    Lt(ema9_prev, ema21_prev) /\ Gt(ema9, ema21)

\* ema9_prev <= ema21_prev and ema9 > ema21
CrossedAbove(ema9_prev, ema21_prev, ema9, ema21) ==
    Le(ema9_prev, ema21_prev) /\ Gt(ema9, ema21)

\* ema9_prev >= ema21_prev and ema9 < ema21
CrossedBelow(ema9_prev, ema21_prev, ema9, ema21) ==
    Ge(ema9_prev, ema21_prev) /\ Lt(ema9, ema21)

\* the body of the loop at a row with these column values
EmaCrossoverRow(close, ema9, ema21) ==
    LET ema9_prev == prevEma9
        ema21_prev == prevEma21
    IN
    /\ IF IsNaN(ema9) \/ IsNaN(ema21) THEN Hold
       ELSE IF /\ IsFlat(position)
               /\ CrossedAbove(ema9_prev, ema21_prev, ema9, ema21)
       THEN LET quantity == QuantityNoFee(capital, position_size, close)
            IN  /\ position' = quantity
                /\ entry_price' = RInt(close)
                /\ trades' = Append(trades,
                                    BuyTrade(i, close, quantity, capital))
                /\ UNCHANGED capital
       ELSE IF /\ IsLong(position)
               /\ CrossedBelow(ema9_prev, ema21_prev, ema9, ema21)
       THEN LET cap == ProceedsNoFee(position, close)
                profit == ProfitNoFee(position, entry_price, close)
            IN  /\ capital' = cap
                /\ trades' = Append(trades,
                                    SellTrade(i, close, position, profit, cap))
                /\ position' = RZero
                /\ entry_price' = RZero
       ELSE Hold
    /\ Advance(close, ema9, ema21,
               IF IsNaN(ema9) \/ IsNaN(ema21) THEN {i}
               ELSE {i, PrevIdx(i)})

EmaCrossoverStep ==
    /\ pc = "loop"
    /\ strategy = "ema_crossover"
    /\ i < n
    /\ \E close \in Closes, ema9 \in Ema9s, ema21 \in Ema21s :
         EmaCrossoverRow(close, Float(ema9), Float(ema21))

(***************************************************************************)
(* strategy_combined: one iteration of the loop.  The exit test is an "if" *)
(* of its own after the entry test, so it also sees a position opened in   *)
(* the same iteration.                                                     *)
(***************************************************************************)
\* the stop-loss that is hit as soon as the close is at the entry price
StopLossAtEntry(close, entry) == RLe(RInt(close), entry)

\* the exit reason with the stop-loss ahead of the trend reversal
ExitReasonStopLossFirst(trend_reversal, stop_loss_hit, rsi_exit) ==
    IF stop_loss_hit THEN "STOP_LOSS"
    ELSE IF trend_reversal THEN "TREND_REVERSAL"
    ELSE IF rsi_exit THEN "RSI" ELSE "BB"

\* 'TREND_REVERSAL' if trend_reversal else ('STOP_LOSS' if stop_loss_hit
\*  else ('RSI' if rsi_exit else 'BB'))
ExitReason(trend_reversal, stop_loss_hit, rsi_exit) ==
    IF trend_reversal THEN "TREND_REVERSAL"
    ELSE IF stop_loss_hit THEN "STOP_LOSS"
    ELSE IF rsi_exit THEN "RSI" ELSE "BB"

\* close <= entry_price * (1 - stop_loss_pct), stop_loss_pct = 0.02
StopLossHit(close, entry) ==
    RLe(RInt(close), RMul(entry, RSub(ROne, <<2, 100>>)))

\* the row is skipped: RSI, BB_Lower, EMA_50 or EMA_200 is not ready
CombinedSkips(r) ==
    \/ IsNaN(Float(r.rsi)) \/ IsNaN(Float(r.bb_lower))
    \/ IsNaN(Float(r.ema50)) \/ IsNaN(Float(r.ema200))

\* the body of the loop at a row r with these column values
CombinedRow(r) ==
    LET close == r.close
        rsi == Float(r.rsi)
        bb_lower == Float(r.bb_lower)
        bb_upper == Float(r.bb_upper)
        ema9 == Float(r.ema9)
        ema50 == Float(r.ema50)
        ema200 == Float(r.ema200)
        ema9_prev == prevEma9
        in_uptrend == Gt(ema50, ema200)
        rsi_signal == Lt(rsi, RInt(35))
        bb_signal == LeScaled(close, bb_lower, 1002, 1000)
        ema_trending_up == Gt(ema9, ema9_prev)
        enter == /\ IsFlat(position)
                 /\ in_uptrend
                 /\ (rsi_signal \/ bb_signal)
                 /\ ema_trending_up
        quantity == QuantityWithFee(capital, position_size, fee_rate, close)
        \* the locals after the entry test
        position1 == IF enter THEN quantity ELSE position
        entry_price1 == IF enter THEN RInt(close) ELSE entry_price
        trades1 == IF enter
                   THEN Append(trades, BuyTrade(i, close, quantity, capital))
                   ELSE trades
        rsi_exit == Gt(rsi, RInt(65))
        bb_exit == GeScaled(close, bb_upper, 998, 1000)
        stop_loss_hit == StopLossHit(close, entry_price1)
        trend_reversal == Le(ema50, ema200)
        exit == /\ IsLong(position1)
                /\ (rsi_exit \/ bb_exit \/ stop_loss_hit \/ trend_reversal)
        cap == ProceedsWithFee(position1, fee_rate, close)
        profit == ProfitWithFee(cap, position1, entry_price1, fee_rate)
    IN  IF CombinedSkips(r) THEN Hold
        ELSE IF exit
        THEN /\ capital' = cap
             /\ trades' = Append(trades1,
                  SellTradeReason(i, close, position1, profit, cap,
                    ExitReason(trend_reversal, stop_loss_hit, rsi_exit)))
             /\ position' = RZero
             /\ entry_price' = RZero
        ELSE /\ position' = position1
             /\ entry_price' = entry_price1
             /\ trades' = trades1
             /\ UNCHANGED capital

\* the rows the body of the loop consults at row r
CombinedReads(r) == IF CombinedSkips(r) THEN {i} ELSE {i, PrevIdx(i)}

CombinedStep ==
    /\ pc = "loop"
    /\ strategy = "combined"
    /\ i < n
    /\ \E close \in Closes, rsi \in Rsis, bb_lower \in BBLowers,
          bb_upper \in BBUppers, ema9 \in SlopeEma9s, ema50 \in Ema50s,
          ema200 \in Ema200s :
         LET r == [close |-> close, rsi |-> rsi, bb_lower |-> bb_lower,
                   bb_upper |-> bb_upper, ema9 |-> ema9, ema50 |-> ema50,
                   ema200 |-> ema200]
         IN  /\ CombinedRow(r)
             /\ Advance(close, Float(ema9), FNaN, CombinedReads(r))

(***************************************************************************)
(* ComprehensiveAnalyzer.backtest_strategy and _check_entry_conditions.    *)
(***************************************************************************)
\* d.get(key, default)
Get(d, key, default) == IF key \in DOMAIN d THEN d[key] ELSE default

\* _check_entry_conditions(index, conditions)
CheckEntryConditions(index, candle, conds) ==
    LET rsi14 == Get(candle, "rsi14", Get(candle, "rsi_14", 50))
        rsi6 == Get(candle, "rsi6", Get(candle, "rsi_6", 50))
    IN  IF index < 20 THEN FALSE
        ELSE IF "rsi14_min" \in DOMAIN conds /\ rsi14 < conds["rsi14_min"]
        THEN FALSE
        ELSE IF "rsi14_max" \in DOMAIN conds /\ rsi14 > conds["rsi14_max"]
        THEN FALSE
        ELSE IF "rsi6_min" \in DOMAIN conds /\ rsi6 < conds["rsi6_min"]
        THEN FALSE
        ELSE IF "rsi6_max" \in DOMAIN conds /\ rsi6 > conds["rsi6_max"]
        THEN FALSE
        ELSE TRUE

\* profit_pct = ((price - entry_price) / entry_price) * 100
ProfitPct(price, entry) ==
    RMul(RDiv(RSub(RInt(price), entry), entry), RInt(100))

AnalyzerTrade(entry, exit, profit_pct, res, bars_held) ==
    [entry |-> entry, exit |-> exit, profit_pct |-> profit_pct,
     result |-> res, bars_held |-> bars_held]

\* the stop-loss test with the equality left out
IsLossStrict(profit_pct, sl) == RLt(profit_pct, RNeg(sl))

\* profit_pct >= tp_percent
IsWin(profit_pct, tp) == RGe(profit_pct, tp)

\* profit_pct <= -sl_percent
IsLoss(profit_pct, sl) == RLe(profit_pct, RNeg(sl))

\* one iteration of the loop of backtest_strategy
AnalyzerStep ==
    /\ pc = "loop"
    /\ strategy = "analyzer"
    /\ i < n
    /\ \E candle \in Candles :
         LET price == candle["close"]
             profit_pct == ProfitPct(price, entry_price)
         IN
         /\ IF ~in_position
            THEN IF CheckEntryConditions(i, candle, conditions)
                 THEN /\ in_position' = TRUE
                      /\ entry_price' = RInt(price)
                      /\ entry_index' = i
                      /\ UNCHANGED trades
                 ELSE UNCHANGED <<in_position, entry_price, entry_index, trades>>
            ELSE IF IsWin(profit_pct, tp_percent)
                 THEN /\ trades' = Append(trades,
                           AnalyzerTrade(entry_price, price, profit_pct, "win",
                                         i - entry_index))
                      /\ in_position' = FALSE
                      /\ UNCHANGED <<entry_price, entry_index>>
                 ELSE IF IsLoss(profit_pct, sl_percent)
                 THEN /\ trades' = Append(trades,
                           AnalyzerTrade(entry_price, price, profit_pct, "loss",
                                         i - entry_index))
                      /\ in_position' = FALSE
                      /\ UNCHANGED <<entry_price, entry_index>>
                 ELSE UNCHANGED <<in_position, entry_price, entry_index, trades>>
         /\ i' = NextIdx(i)
         /\ lastClose' = price
         /\ visited' = Append(visited, i)
         /\ reads' = {i}
         /\ UNCHANGED <<params, df_row, timing, pc, capital, position, prevEma9, prevEma21,
                        result, uptrend_entries, sideways_entries>>

\* [t['profit_pct'] for t in ts]
ProfitPcts(ts) == [k \in 1 .. Len(ts) |-> ts[k].profit_pct]

\* [t['bars_held'] for t in ts]
BarsHeld(ts) == [k \in 1 .. Len(ts) |-> RInt(ts[k].bars_held)]

\* the profit factor with abs() forgotten
ProfitFactorSigned(wins, losses) ==
    IF losses # <<>> /\ RSum([k \in 1 .. Len(losses) |-> losses[k].profit_pct]) # RZero
    THEN RDiv(RSum([k \in 1 .. Len(wins) |-> wins[k].profit_pct]),
              RSum([k \in 1 .. Len(losses) |-> losses[k].profit_pct]))
    ELSE RZero

\* abs(sum(wins) / sum(losses)) if losses and sum(losses) != 0 else 0
ProfitFactor(wins, losses) ==
    IF losses # <<>> /\ RSum(ProfitPcts(losses)) # RZero
    THEN RAbs(RDiv(RSum(ProfitPcts(wins)), RSum(ProfitPcts(losses))))
    ELSE RZero

\* the dictionary backtest_strategy returns
AnalyzerSummary(ts) ==
    IF ts = <<>>
    THEN [total_trades |-> 0, win_rate |-> RZero, avg_profit |-> RZero,
          avg_loss |-> RZero]
    ELSE LET wins == SelectSeq(ts, LAMBDA t : t.result = "win")
             losses == SelectSeq(ts, LAMBDA t : t.result = "loss")
         IN  [total_trades |-> Len(ts),
              wins |-> Len(wins),
              losses |-> Len(losses),
              win_rate |-> RMul(Rat(Len(wins), Len(ts)), RInt(100)),
              avg_profit |-> IF wins # <<>> THEN RMean(ProfitPcts(wins))
                             ELSE RZero,
              avg_loss |-> IF losses # <<>> THEN RMean(ProfitPcts(losses))
                           ELSE RZero,
              avg_bars_held |-> RMean(BarsHeld(ts)),
              profit_factor |-> ProfitFactor(wins, losses)]

\* the end of the loop of backtest_strategy: the summary is returned
AnalyzerReturn ==
    /\ pc = "loop"
    /\ strategy = "analyzer"
    /\ i >= n
    /\ result' = AnalyzerSummary(trades)
    /\ pc' = "returned"
    /\ UNCHANGED <<params, df_row, timing, i, capital, position, entry_price, in_position,
                   entry_index, trades, lastClose, prevEma9, prevEma21,
                   visited, reads, uptrend_entries, sideways_entries>>

(***************************************************************************)
(* analyze_trades and print_results of coinone_xrp_backtest.py.            *)
(***************************************************************************)
\* [t.get('profit', 0) for t in sell_trades]
Profits(sell_trades) ==
    [k \in 1 .. Len(sell_trades) |-> Get(sell_trades[k], "profit", RZero)]

\* the win rate as a fraction, not a percentage
WinFraction(winning, sells) == Rat(winning, sells)

\* len(winning_trades) / len(sell_trades) * 100
WinRate(winning, sells) == RMul(Rat(winning, sells), RInt(100))

\* the return as a fraction, not a percentage
ReturnFraction(total_profit, init_cap) == RDiv(total_profit, RInt(init_cap))

\* (total_profit / initial_capital) * 100
ReturnPct(total_profit, init_cap) ==
    RMul(RDiv(total_profit, RInt(init_cap)), RInt(100))

\* analyze_trades(trades, initial_capital, strategy_name)
AnalyzeTradesResult(ts, init_cap, strategy_name) ==
    IF Len(ts) = 0
    THEN [strategy |-> strategy_name,
          total_trades |-> 0,
          final_capital |-> RInt(init_cap),
          profit |-> RZero,
          return_pct |-> RZero]
    ELSE LET buy_trades == SelectSeq(ts, LAMBDA t : t.type = "BUY")
             sell_trades == SelectSeq(ts, LAMBDA t : t.type = "SELL")
             final_capital == IF ts[Len(ts)].type = "SELL"
                              THEN ts[Len(ts)].capital
                              ELSE RInt(init_cap)
             total_profit == RSub(final_capital, RInt(init_cap))
             return_pct == ReturnPct(total_profit, init_cap)
             profits == Profits(sell_trades)
             winning_trades == SelectSeq(profits, LAMBDA q : RGt(q, RZero))
             losing_trades == SelectSeq(profits, LAMBDA q : RLt(q, RZero))
         IN  [strategy |-> strategy_name,
              total_trades |-> Len(buy_trades),
              winning_trades |-> Len(winning_trades),
              losing_trades |-> Len(losing_trades),
              win_rate |-> IF sell_trades # <<>>
                           THEN WinRate(Len(winning_trades), Len(sell_trades))
                           ELSE RZero,
              final_capital |-> final_capital,
              profit |-> total_profit,
              return_pct |-> return_pct,
              avg_profit |-> IF profits # <<>> THEN RMean(profits) ELSE RZero,
              max_profit |-> IF profits # <<>> THEN RMax(profits) ELSE RZero,
              max_loss |-> IF profits # <<>> THEN RMin(profits) ELSE RZero]

\* results.append(analyze_trades(trades, INITIAL_CAPITAL, name))
AnalyzeTrades ==
    /\ pc = "done"
    /\ result' = AnalyzeTradesResult(trades, initial_capital, strategy)
    /\ pc' = "analyzed"
    /\ UNCHANGED <<params, df_row, timing, i, capital, position, entry_price, in_position,
                   entry_index, trades, lastClose, prevEma9, prevEma21,
                   visited, reads, uptrend_entries, sideways_entries>>

\* the keys print_results subscripts in each result
PrintedKeys == {"strategy", "total_trades", "win_rate", "return_pct", "profit"}

\* print_results(results): a missing key raises KeyError
PrintResults ==
    /\ pc = "analyzed"
    /\ pc' = IF PrintedKeys \subseteq DOMAIN result THEN "printed"
             ELSE "KeyError"
    /\ UNCHANGED <<params, df_row, timing, i, capital, position, entry_price, in_position,
                   entry_index, trades, lastClose, prevEma9, prevEma21,
                   visited, reads, result, uptrend_entries,
                   sideways_entries>>

(***************************************************************************)
(* backtest_strategy of coinone_strategy_backtest.py: the count of entry   *)
(* opportunities.  Each iteration computes its indicators from the prefix  *)
(* closes[:i+1] and volumes[:i+1]; with i >= 200 none of them is None.     *)
(***************************************************************************)
\* the values an iteration computes from the prefix
EntryPrices == {98, 100, 102}
EntryRsis == {14, 25, 33, 38, 45}
EntryEma9s == {100}
EntryEma21s == {100, 103}
EntryEma50s == {100}
EntryEma200s == {90, 110}
\* <<bb_upper, bb_middle, bb_lower>>
EntryBands == {<<105, 100, 95>>, <<110, 100, 90>>, <<100, 100, 100>>}
\* <<volumes[i], volume_ma5>>
EntryVolumes == {<<12, 10>>, <<5, 10>>, <<0, 0>>}

\* closes[:i+1], as the set of indices in the slice
Prefix(k) == 0 .. k

\* sum(conditions.values()): the number of conditions that hold
CountTrue(conds) == Cardinality({key \in DOMAIN conds : conds[key]})

\* the trend with the 0.5% margin forgotten
DetectTrendNoMargin(ema50, ema200, price) ==
    IF ema50 > ema200 /\ price > ema50 THEN "uptrend"
    ELSE IF ema50 < ema200 /\ price < ema50 THEN "downtrend"
    ELSE "sideways"

\* detect_trend(ema50, ema200, price)
detect_trend(ema50, ema200, price) ==
    IF /\ ema50 > ema200
       /\ price > ema50
       /\ RGt(RMul(Rat(price - ema50, ema50), RInt(100)), <<1, 2>>)
    THEN "uptrend"
    ELSE IF /\ ema50 < ema200
            /\ price < ema50
            /\ RGt(RMul(Rat(ema50 - price, ema50), RInt(100)), <<1, 2>>)
    THEN "downtrend"
    ELSE "sideways"

\* the entry check with the test of the second tier made first
UptrendEntrySecondTierFirst(rsi, price, ema21, ema9, bb_middle, volume_ratio) ==
    IF rsi > 40 THEN <<FALSE, RZero, <<>>, RZero, RZero, RZero>>
    ELSE LET tier == IF rsi <= 35 THEN <<(<<1, 2>>), RInt(4), RInt(2)>>
                     ELSE IF rsi <= 30 THEN <<ROne, RInt(5), RInt(3)>>
                     ELSE <<(<<1, 4>>), RInt(3), (<<3, 2>>)>>
             conds ==
                 [price_near_ema21 |-> price * 100 > ema21 * 98,
                  short_term_uptrend |-> ema9 * 100 > ema21 * 99,
                  not_overbought |-> price * 100 <= bb_middle * 101,
                  volume_confirmation |-> RGe(volume_ratio, ROne)]
             strength == Rat(CountTrue(conds), Cardinality(DOMAIN conds))
         IN  <<RGe(strength, <<3, 4>>), strength, conds,
               tier[1], tier[2], tier[3]>>

\* check_uptrend_entry(rsi, price, ema21, ema9, bb_middle, volume_ratio):
\* <<is_entry, strength, conditions, position_size, sl_percent, tp_percent>>
check_uptrend_entry(rsi, price, ema21, ema9, bb_middle, volume_ratio) ==
    IF rsi > 40 THEN <<FALSE, RZero, <<>>, RZero, RZero, RZero>>
    ELSE LET tier == IF rsi <= 30 THEN <<ROne, RInt(5), RInt(3)>>
                     ELSE IF rsi <= 35 THEN <<(<<1, 2>>), RInt(4), RInt(2)>>
                     ELSE <<(<<1, 4>>), RInt(3), (<<3, 2>>)>>
             conds ==
                 [price_near_ema21 |-> price * 100 > ema21 * 98,
                  short_term_uptrend |-> ema9 * 100 > ema21 * 99,
                  not_overbought |-> price * 100 <= bb_middle * 101,
                  volume_confirmation |-> RGe(volume_ratio, ROne)]
             strength == Rat(CountTrue(conds), Cardinality(DOMAIN conds))
         IN  <<RGe(strength, <<3, 4>>), strength, conds,
               tier[1], tier[2], tier[3]>>

\* the sideways check with the weights of the band and of the RSI exchanged
SidewaysEntryWeightsSwapped(rsi, bb_position, volume_ratio) ==
    IF rsi > 32 THEN <<FALSE, RZero, <<>> >>
    ELSE LET conds ==
                 [near_lower_band |-> RLt(bb_position, <<2, 5>>),
                  deeply_oversold |-> rsi <= 32,
                  not_extreme |-> rsi >= 15,
                  volume_spike |-> RGe(volume_ratio, <<11, 10>>)]
             strength ==
                 RAdd(RAdd(IF conds.near_lower_band THEN <<1, 4>> ELSE RZero,
                           IF conds.deeply_oversold THEN <<7, 20>> ELSE RZero),
                      RAdd(IF conds.not_extreme THEN <<1, 5>> ELSE RZero,
                           IF conds.volume_spike THEN <<1, 5>> ELSE RZero))
         IN  <<RGe(strength, <<4, 5>>), strength, conds>>

\* the sideways check with an entry threshold of 0.65
SidewaysEntryLowThreshold(rsi, bb_position, volume_ratio) ==
    IF rsi > 32 THEN <<FALSE, RZero, <<>> >>
    ELSE LET conds ==
                 [near_lower_band |-> RLt(bb_position, <<2, 5>>),
                  deeply_oversold |-> rsi <= 32,
                  not_extreme |-> rsi >= 15,
                  volume_spike |-> RGe(volume_ratio, <<11, 10>>)]
             strength ==
                 RAdd(RAdd(IF conds.near_lower_band THEN <<7, 20>> ELSE RZero,
                           IF conds.deeply_oversold THEN <<1, 4>> ELSE RZero),
                      RAdd(IF conds.not_extreme THEN <<1, 5>> ELSE RZero,
                           IF conds.volume_spike THEN <<1, 5>> ELSE RZero))
         IN  <<RGe(strength, <<13, 20>>), strength, conds>>

\* check_sideways_entry(rsi, bb_position, volume_ratio):
\* <<is_entry, strength, conditions>>
check_sideways_entry(rsi, bb_position, volume_ratio) ==
    IF rsi > 32 THEN <<FALSE, RZero, <<>> >>
    ELSE LET conds ==
                 [near_lower_band |-> RLt(bb_position, <<2, 5>>),
                  deeply_oversold |-> rsi <= 32,
                  not_extreme |-> rsi >= 15,
                  volume_spike |-> RGe(volume_ratio, <<11, 10>>)]
             strength ==
                 RAdd(RAdd(IF conds.near_lower_band THEN <<7, 20>> ELSE RZero,
                           IF conds.deeply_oversold THEN <<1, 4>> ELSE RZero),
                      RAdd(IF conds.not_extreme THEN <<1, 5>> ELSE RZero,
                           IF conds.volume_spike THEN <<1, 5>> ELSE RZero))
         IN  <<RGe(strength, <<4, 5>>), strength, conds>>

\* the un-gated sideways check with an entry threshold of 0.75
SidewaysConditionsLowThreshold(rsi, bb_position, volume_ratio) ==
    LET near_lower_band == RLt(bb_position, <<2, 5>>)
        deeply_oversold == rsi <= 32
        not_extreme == rsi >= 15
        volume_spike == RGe(volume_ratio, <<11, 10>>)
        strength0 == RZero
        strength1 == IF near_lower_band THEN RAdd(strength0, <<7, 20>>)
                     ELSE strength0
        strength2 == IF deeply_oversold THEN RAdd(strength1, <<1, 4>>)
                     ELSE strength1
        strength3 == IF not_extreme THEN RAdd(strength2, <<1, 5>>)
                     ELSE strength2
        strength == IF volume_spike THEN RAdd(strength3, <<1, 5>>)
                    ELSE strength3
        reasons == (IF near_lower_band THEN <<"near_lower_band">> ELSE <<>>)
                   \o (IF deeply_oversold THEN <<"deeply_oversold">> ELSE <<>>)
                   \o (IF not_extreme THEN <<"not_extreme">> ELSE <<>>)
                   \o (IF volume_spike THEN <<"volume_spike">> ELSE <<>>)
        is_entry == RGe(strength, <<3, 4>>)
    IN  <<is_entry, strength,
          [near_lower_band |-> near_lower_band,
           deeply_oversold |-> deeply_oversold,
           not_extreme |-> not_extreme,
           volume_spike |-> volume_spike],
          reasons>>

\* check_sideways_conditions(rsi, bb_position, volume_ratio):
\* <<is_entry, strength, conditions, reasons>>, one reason per condition that
\* holds; no RSI gate
check_sideways_conditions(rsi, bb_position, volume_ratio) ==
    LET near_lower_band == RLt(bb_position, <<2, 5>>)
        deeply_oversold == rsi <= 32
        not_extreme == rsi >= 15
        volume_spike == RGe(volume_ratio, <<11, 10>>)
        strength0 == RZero
        strength1 == IF near_lower_band THEN RAdd(strength0, <<7, 20>>)
                     ELSE strength0
        strength2 == IF deeply_oversold THEN RAdd(strength1, <<1, 4>>)
                     ELSE strength1
        strength3 == IF not_extreme THEN RAdd(strength2, <<1, 5>>)
                     ELSE strength2
        strength == IF volume_spike THEN RAdd(strength3, <<1, 5>>)
                    ELSE strength3
        reasons == (IF near_lower_band THEN <<"near_lower_band">> ELSE <<>>)
                   \o (IF deeply_oversold THEN <<"deeply_oversold">> ELSE <<>>)
                   \o (IF not_extreme THEN <<"not_extreme">> ELSE <<>>)
                   \o (IF volume_spike THEN <<"volume_spike">> ELSE <<>>)
        is_entry == RGe(strength, <<4, 5>>)
    IN  <<is_entry, strength,
          [near_lower_band |-> near_lower_band,
           deeply_oversold |-> deeply_oversold,
           not_extreme |-> not_extreme,
           volume_spike |-> volume_spike],
          reasons>>

\* the scoring written out in the loop of analyze_bot_timing (and of
\* check_actual_entry_times): <<is_entry, strength>>; no RSI gate
SidewaysScore(rsi, bb_position, volume_ratio) ==
    LET near_lower == RLt(bb_position, <<2, 5>>)
        oversold == rsi <= 32
        not_extreme == rsi >= 15
        vol_spike == RGe(volume_ratio, <<11, 10>>)
        strength0 == RZero
        strength1 == IF near_lower THEN RAdd(strength0, <<7, 20>>)
                     ELSE strength0
        strength2 == IF oversold THEN RAdd(strength1, <<1, 4>>)
                     ELSE strength1
        strength3 == IF not_extreme THEN RAdd(strength2, <<1, 5>>)
                     ELSE strength2
        strength == IF vol_spike THEN RAdd(strength3, <<1, 5>>)
                    ELSE strength3
    IN  <<RGe(strength, <<4, 5>>), strength>>

\* one iteration of "for i in range(200, len(candles))"
EntryStep ==
    /\ pc = "loop"
    /\ strategy = "entry_opportunity"
    /\ i < n
    /\ \E price \in EntryPrices, rsi \in EntryRsis, ema9 \in EntryEma9s,
          ema21 \in EntryEma21s, ema50 \in EntryEma50s,
          ema200 \in EntryEma200s, bands \in EntryBands,
          vol \in EntryVolumes :
         LET bb_upper == bands[1]
             bb_middle == bands[2]
             bb_lower == bands[3]
             volume == vol[1]
             volume_ma5 == vol[2]
             volume_ratio == IF volume_ma5 > 0 THEN Rat(volume, volume_ma5)
                             ELSE ROne
             trend == detect_trend(ema50, ema200, price)
             bb_range == bb_upper - bb_lower
             bb_position == IF bb_range > 0 THEN Rat(price - bb_lower, bb_range)
                            ELSE <<1, 2>>
             up == check_uptrend_entry(rsi, price, ema21, ema9, bb_middle,
                                       volume_ratio)
             side == check_sideways_entry(rsi, bb_position, volume_ratio)
         IN
         /\ IF trend = "uptrend" /\ up[1]
            THEN /\ uptrend_entries' = Append(uptrend_entries,
                      [time |-> i, price |-> price, rsi |-> rsi,
                       volume_ratio |-> volume_ratio, strength |-> up[2],
                       conditions |-> up[3], position_size |-> up[4],
                       sl_percent |-> up[5], tp_percent |-> up[6]])
                 /\ UNCHANGED sideways_entries
            ELSE IF trend = "sideways" /\ side[1]
            THEN /\ sideways_entries' = Append(sideways_entries,
                      [time |-> i, price |-> price, rsi |-> rsi,
                       bb_position |-> bb_position,
                       volume_ratio |-> volume_ratio, strength |-> side[2],
                       conditions |-> side[3]])
                 /\ UNCHANGED uptrend_entries
            ELSE UNCHANGED <<uptrend_entries, sideways_entries>>
         /\ i' = NextIdx(i)
         /\ lastClose' = price
         /\ visited' = Append(visited, i)
         /\ reads' = Prefix(i)
         /\ UNCHANGED <<params, df_row, timing, pc, capital, position, entry_price,
                        in_position, entry_index, trades, prevEma9, prevEma21,
                        result>>

\* the end of the loop (or "Not enough data"): the counts are printed
EntryReport ==
    /\ pc = "loop"
    /\ strategy = "entry_opportunity"
    /\ i >= n
    /\ pc' = "reported"
    /\ UNCHANGED <<params, df_row, timing, i, capital, position, entry_price, in_position,
                   entry_index, trades, lastClose, prevEma9, prevEma21,
                   visited, reads, result, uptrend_entries, sideways_entries>>

Next ==
    \/ BollingerStep
    \/ RsiStep
    \/ EmaCrossoverStep
    \/ CombinedStep
    \/ ForcedClose
    \/ AnalyzerStep
    \/ AnalyzerReturn
    \/ AnalyzeTrades
    \/ PrintResults
    \/ EntryStep
    \/ EntryReport

Spec == Init /\ [][Next]_vars

(***************************************************************************)
(* The indicator functions called on their own.  A list function is called *)
(* as the entry-opportunity backtest calls it, on each prefix closes[:i+1] *)
(* in turn; a DataFrame function is called once and returns its columns.   *)
(***************************************************************************)
\* the prices of a list
PriceValues == {1, 2, 3}

\* the lists of at most MaxPrices prices
PriceLists == UNION {[1 .. k -> PriceValues] : k \in 0 .. MaxPrices}

\* the periods a function is called with on those lists
Periods == {1, 2}

\* the defaults of calculate_bollinger_bands and of calculate_rsi
bb_period == 20
bb_std_dev == RInt(2)
rsi_period == 14

\* 25 closes 100, 99, ..., 76
LosingRun == [k \in 1 .. 25 |-> 101 - k]

\* the calls of a function of a price list and a period
PriceCalls(f) ==
    {[fn |-> f, prices |-> p, period |-> q] : p \in PriceLists, q \in Periods}

\* a field value float() and int() reject, such as 'abc'
Malformed == -2

\* the fields ComprehensiveAnalyzer.__init__ reads of every candle, in the
\* order of its list comprehensions
CandleFields == <<"close", "high", "low", "volume", "timestamp">>

\* a candle with every field, and the candles with one field missing or
\* malformed
FullCandle ==
    [close |-> 100, high |-> 100, low |-> 100, volume |-> 10, timestamp |-> 0]
RawCandles ==
    {FullCandle}
      \cup {[f \in DOMAIN FullCandle \ {g} |-> FullCandle[f]] :
              g \in DOMAIN FullCandle}
      \cup {[FullCandle EXCEPT ![g] = Malformed] : g \in {"close", "timestamp"}}

\* the candles _check_entry_conditions is given: those of self.candles and
\* one whose rsi14 is malformed
RsiCandles == Candles \cup {[close |-> 100, rsi14 |-> Malformed]}

\* the calls of the methods of ComprehensiveAnalyzer that read candle fields
CandleCalls ==
    {[fn |-> "__init__", candle_data |-> cs] :
        cs \in UNION {[1 .. k -> RawCandles] : k \in 1 .. 2}}
      \cup {[fn |-> "_check_entry_conditions", index |-> k, candle |-> c,
              conditions |-> conds] :
              k \in {19, 20}, c \in RsiCandles, conds \in EntryConditions}

\* the arguments detect_trend is called with at a row: prices at, just
\* inside and beyond the 0.5% margin around ema50, ema200 on either side
TrendRows ==
    {[ema50 |-> e50, ema200 |-> e200, price |-> p] :
        e50 \in {100, 200}, e200 \in {150, 200},
        p \in {99, 101, 198, 199, 200, 201, 202}}

\* detect_trend called at one row after the other
TrendCalls ==
    {[fn |-> "detect_trend", rows |-> rs] :
        rs \in UNION {[1 .. k -> TrendRows] : k \in 1 .. MaxRegimes}}

\* the calls of check_uptrend_entry: an RSI in, at the edge of and above
\* every tier
UptrendCalls ==
    {[fn |-> "check_uptrend_entry", rsi |-> r, price |-> p, ema21 |-> e21,
      ema9 |-> 100, bb_middle |-> mid, volume_ratio |-> v] :
        r \in {25, 30, 31, 35, 36, 40, 41, 50}, p \in {97, 100, 102},
        e21 \in {100, 103}, mid \in {95, 100},
        v \in {<<1, 2>>, <<1, 1>>, <<6, 5>>}}

\* the calls of a sideways evaluator: an RSI below, at and above 15 and 32,
\* a band position below, at and above 0.4, a volume ratio below, at and
\* above 1.1
SidewaysCalls(f) ==
    {[fn |-> f, rsi |-> r, bb_position |-> b, volume_ratio |-> v] :
        r \in {10, 14, 15, 20, 32, 33, 40},
        b \in {<<1, 5>>, <<2, 5>>, <<1, 2>>},
        v \in {<<1, 1>>, <<11, 10>>, <<6, 5>>}}

\* the functions of a list and those of a DataFrame
ListFunctions ==
    {"calculate_rsi", "calculate_ema", "calculate_bollinger_bands",
     "calculate_volume_ma"}
DataFrameFunctions ==
    {"calculate_rsi_df", "calculate_ema_df", "calculate_bollinger_bands_df"}

\* volumes of a candle, a candle without trades among them
VolumeValues == {0, 1, 3}

\* the lists of volumes a function is called with (kept in the field prices)
VolumeCalls(f) ==
    {[fn |-> f, prices |-> v, period |-> q] :
        v \in UNION {[1 .. k -> VolumeValues] : k \in 1 .. MaxPrices},
        q \in Periods}

IndicatorCalls ==
    UNION {PriceCalls(f) : f \in ListFunctions \cup DataFrameFunctions}
      \cup VolumeCalls("volume_ratio")
      \cup {c \in VolumeCalls("analyze_volume_profile") : c.period = 1}
      \cup CandleCalls
      \cup TrendCalls
      \cup UptrendCalls
      \cup SidewaysCalls("check_sideways_entry")
      \cup SidewaysCalls("check_sideways_conditions")
      \cup SidewaysCalls("analyze_bot_timing")
      \cup {[fn |-> "calculate_rsi", prices |-> LosingRun, period |-> 14]}
      \cup {[fn |-> "calculate_rsi_df", prices |-> LosingRun, period |-> 14]}

\* the locals of the simulators, which no function call touches
locals ==
    <<capital, position, entry_price, in_position, entry_index, trades,
      lastClose, prevEma9, prevEma21, visited, reads, uptrend_entries,
      sideways_entries>>

IndicatorInit ==
    /\ call \in IndicatorCalls
    /\ pc = "call"
    /\ i = 0
    /\ result = <<>>
    /\ strategy = "none"
    /\ n = 0
    /\ initial_capital = 0
    /\ position_size = RZero
    /\ fee_rate = RZero
    /\ tp_percent = RZero
    /\ sl_percent = RZero
    /\ conditions = <<>>
    /\ closes = <<>>
    /\ capital = RZero
    /\ position = RZero
    /\ entry_price = RZero
    /\ in_position = FALSE
    /\ entry_index = 0
    /\ trades = <<>>
    /\ lastClose = NaN
    /\ prevEma9 = FNaN
    /\ prevEma21 = FNaN
    /\ visited = <<>>
    /\ reads = {}
    /\ uptrend_entries = <<>>
    /\ sideways_entries = <<>>
    /\ df_row = <<>>
    /\ entry_windows = <<>>
    /\ current_window = <<>>
    /\ analysed = <<>>

\* rsi = calculate_rsi(closes[:i+1], period)
CallRsi ==
    /\ pc = "call"
    /\ call.fn = "calculate_rsi"
    /\ i < Len(call.prices)
    /\ result' = calculate_rsi(Take(call.prices, i + 1), call.period)
    /\ i' = i + 1
    /\ UNCHANGED <<params, df_row, timing, pc, locals>>

\* df = calculate_rsi(df, period)
CallRsiDf ==
    /\ pc = "call"
    /\ call.fn = "calculate_rsi_df"
    /\ result' = calculate_rsi_df(call.prices, call.period)
    /\ pc' = "return"
    /\ UNCHANGED <<params, df_row, timing, i, locals>>

\* ema = calculate_ema(closes[:i+1], period)
CallEma ==
    /\ pc = "call"
    /\ call.fn = "calculate_ema"
    /\ i < Len(call.prices)
    /\ result' = calculate_ema(Take(call.prices, i + 1), call.period)
    /\ i' = i + 1
    /\ UNCHANGED <<params, df_row, timing, pc, locals>>

\* bb_upper, bb_middle, bb_lower = calculate_bollinger_bands(closes[:i+1], period)
CallBollinger ==
    /\ pc = "call"
    /\ call.fn = "calculate_bollinger_bands"
    /\ i < Len(call.prices)
    /\ result' = calculate_bollinger_bands(Take(call.prices, i + 1),
                                           call.period, bb_std_dev)
    /\ i' = i + 1
    /\ UNCHANGED <<params, df_row, timing, pc, locals>>

\* vol_ma = calculate_volume_ma(volumes[:i+1], period)
CallVolumeMa ==
    /\ pc = "call"
    /\ call.fn = "calculate_volume_ma"
    /\ i < Len(call.prices)
    /\ result' = calculate_volume_ma(Take(call.prices, i + 1), call.period)
    /\ i' = i + 1
    /\ UNCHANGED <<params, df_row, timing, pc, locals>>

\* df = calculate_ema(df, [period])
CallEmaDf ==
    /\ pc = "call"
    /\ call.fn = "calculate_ema_df"
    /\ result' = calculate_ema_df(call.prices, call.period)
    /\ pc' = "return"
    /\ UNCHANGED <<params, df_row, timing, i, locals>>

\* df = calculate_bollinger_bands(df, period)
CallBollingerDf ==
    /\ pc = "call"
    /\ call.fn = "calculate_bollinger_bands_df"
    /\ result' = calculate_bollinger_bands_df(call.prices, call.period,
                                              bb_std_dev)
    /\ pc' = "return"
    /\ UNCHANGED <<params, df_row, timing, i, locals>>

\* volume_ma5 = calculate_volume_ma(volumes[:i+1], period); the row is
\* skipped while it is None, otherwise
\* volume_ratio = volume / volume_ma5 if volume_ma5 > 0 else 1.0
CallVolumeRatio ==
    /\ pc = "call"
    /\ call.fn = "volume_ratio"
    /\ i < Len(call.prices)
    /\ LET volume_ma5 == calculate_volume_ma(Take(call.prices, i + 1),
                                             call.period)
           volume == call.prices[i + 1]
       IN  result' = IF volume_ma5 = None THEN None
                     ELSE VolumeRatio(volume, volume_ma5)
    /\ i' = i + 1
    /\ UNCHANGED <<params, df_row, timing, pc, locals>>

\* analyzer.analyze_volume_profile()
CallVolumeProfile ==
    /\ pc = "call"
    /\ call.fn = "analyze_volume_profile"
    /\ result' = analyze_volume_profile(call.prices)
    /\ pc' = "return"
    /\ UNCHANGED <<params, df_row, timing, i, locals>>

\* float(c[field]) / int(c[field]) of one candle: the exception it raises,
\* "none" if it returns
ReadField(c, field) ==
    IF field \notin DOMAIN c THEN "KeyError"
    ELSE IF c[field] = Malformed THEN "ValueError" ELSE "none"

\* ComprehensiveAnalyzer(candle_data): one list comprehension per field over
\* all candles; the first read that fails raises
Construct(candle_data) ==
    LET Fails(f, k) == ReadField(candle_data[k], CandleFields[f]) # "none"
        failing == {fk \in (1 .. Len(CandleFields)) \X (1 .. Len(candle_data)) :
                      Fails(fk[1], fk[2])}
        Before(a, b) == a[1] < b[1] \/ (a[1] = b[1] /\ a[2] <= b[2])
        first == CHOOSE a \in failing : \A b \in failing : Before(a, b)
    IN  IF failing = {}
        THEN <<"return",
               [closes |-> [k \in 1 .. Len(candle_data) |-> candle_data[k].close],
                volumes |-> [k \in 1 .. Len(candle_data) |->
                               candle_data[k].volume]]>>
        ELSE <<"raise", ReadField(candle_data[first[2]], CandleFields[first[1]])>>

\* analyzer = ComprehensiveAnalyzer(data)
CallConstruct ==
    /\ pc = "call"
    /\ call.fn = "__init__"
    /\ result' = Construct(call.candle_data)
    /\ pc' = result'[1]
    /\ UNCHANGED <<params, df_row, timing, i, locals>>

\* self._check_entry_conditions(index, conditions), candle = self.candles[index]
CallCheckEntryConditions ==
    /\ pc = "call"
    /\ call.fn = "_check_entry_conditions"
    /\ LET candle == call.candle
           rsi14 == Get(candle, "rsi14", Get(candle, "rsi_14", 50))
           rsi6 == Get(candle, "rsi6", Get(candle, "rsi_6", 50))
       IN  result' =
             IF call.index >= 20 /\ Malformed \in {rsi14, rsi6}
             THEN <<"raise", "ValueError">>
             ELSE <<"return",
                    CheckEntryConditions(call.index, candle, call.conditions)>>
    /\ pc' = result'[1]
    /\ UNCHANGED <<params, df_row, timing, i, locals>>

\* trend = detect_trend(ema50, ema200, price) at the next row
CallDetectTrend ==
    /\ pc = "call"
    /\ call.fn = "detect_trend"
    /\ i < Len(call.rows)
    /\ LET row == call.rows[i + 1]
       IN  result' = detect_trend(row.ema50, row.ema200, row.price)
    /\ i' = i + 1
    /\ UNCHANGED <<params, df_row, timing, pc, locals>>

\* is_entry, strength, conditions, position_size, sl_pct, tp_pct =
\*     check_uptrend_entry(rsi, price, ema21, ema9, bb_middle, volume_ratio)
CallCheckUptrendEntry ==
    /\ pc = "call"
    /\ call.fn = "check_uptrend_entry"
    /\ result' = check_uptrend_entry(call.rsi, call.price, call.ema21,
                                     call.ema9, call.bb_middle,
                                     call.volume_ratio)
    /\ pc' = "return"
    /\ UNCHANGED <<params, df_row, timing, i, locals>>

\* is_entry, strength, conditions =
\*     check_sideways_entry(rsi, bb_position, volume_ratio)
CallCheckSidewaysEntry ==
    /\ pc = "call"
    /\ call.fn = "check_sideways_entry"
    /\ result' = check_sideways_entry(call.rsi, call.bb_position,
                                      call.volume_ratio)
    /\ pc' = "return"
    /\ UNCHANGED <<params, df_row, timing, i, locals>>

\* is_entry, strength, conditions, reasons =
\*     check_sideways_conditions(rsi, bb_position, volume_ratio)
CallCheckSidewaysConditions ==
    /\ pc = "call"
    /\ call.fn = "check_sideways_conditions"
    /\ result' = check_sideways_conditions(call.rsi, call.bb_position,
                                           call.volume_ratio)
    /\ pc' = "return"
    /\ UNCHANGED <<params, df_row, timing, i, locals>>

\* the scoring of one candle in the loop of analyze_bot_timing
ScoreCandle ==
    /\ pc = "call"
    /\ call.fn = "analyze_bot_timing"
    /\ result' = SidewaysScore(call.rsi, call.bb_position, call.volume_ratio)
    /\ pc' = "return"
    /\ UNCHANGED <<params, df_row, timing, i, locals>>

IndicatorNext ==
    \/ CallCheckSidewaysEntry
    \/ CallCheckSidewaysConditions
    \/ ScoreCandle
    \/ CallDetectTrend
    \/ CallCheckUptrendEntry
    \/ CallConstruct
    \/ CallCheckEntryConditions
    \/ CallVolumeRatio
    \/ CallVolumeProfile
    \/ CallRsi
    \/ CallRsiDf
    \/ CallEma
    \/ CallBollinger
    \/ CallVolumeMa
    \/ CallEmaDf
    \/ CallBollingerDf

IndicatorSpec == IndicatorInit /\ [][IndicatorNext]_vars

(***************************************************************************)
(* main() of coinone_xrp_backtest.py: the indicator columns are computed   *)
(* from df['Close'] by calculate_all_indicators and a strategy_* simulator *)
(* runs over them.  strategy_combined is left to Spec: its columns EMA_50  *)
(* and EMA_200 need more rows than exact arithmetic can follow.            *)
(***************************************************************************)
\* a series of len rows with the same close in every row
FlatSeries(c, len) == [k \in 1 .. len |-> c]

\* the series of closes a simulator is run over: every short series, the
\* flat series just long enough for the 20-row window, and for
\* strategy_rsi the 25 falling closes
BacktestSeries(s) ==
    UNION {[1 .. k -> Closes] : k \in 0 .. MaxPrices}
      \cup {FlatSeries(c, len) : c \in Closes, len \in bb_period - 1 .. MaxFlat}
      \cup (IF s = "rsi" THEN {LosingRun} ELSE {})

BacktestInit ==
    /\ strategy \in {"bollinger_bands", "rsi", "ema_crossover"}
    /\ closes \in BacktestSeries(strategy)
    /\ n = Len(closes)
    /\ initial_capital \in InitialCapitals
    /\ position_size \in PositionSizes
    /\ fee_rate = RZero
    /\ tp_percent = RZero
    /\ sl_percent = RZero
    /\ conditions = <<>>
    /\ call = <<>>
    /\ pc = "loop"
    /\ i = LoopStart(strategy)
    /\ capital = RInt(initial_capital)
    /\ position = RZero
    /\ entry_price = RZero
    /\ in_position = FALSE
    /\ entry_index = 0
    /\ trades = <<>>
    /\ lastClose = NaN
    /\ prevEma9 = IF strategy = "ema_crossover" /\ n > 1
                  THEN calculate_ema_df(closes, 9)[1] ELSE FNaN
    /\ prevEma21 = IF strategy = "ema_crossover" /\ n > 1
                   THEN calculate_ema_df(closes, 21)[1] ELSE FNaN
    /\ visited = <<>>
    /\ reads = {}
    /\ result = <<>>
    /\ uptrend_entries = <<>>
    /\ sideways_entries = <<>>
    /\ df_row = <<>>
    /\ entry_windows = <<>>
    /\ current_window = <<>>
    /\ analysed = <<>>

\* strategy_bollinger_bands(df) at row i of the computed columns
BacktestBollinger ==
    /\ pc = "loop"
    /\ strategy = "bollinger_bands"
    /\ i < n
    /\ LET df == calculate_bollinger_bands_df(closes, bb_period, bb_std_dev)
           close == closes[i + 1]
       IN  /\ BollingerRow(close, df.BB_Lower[i + 1], df.BB_Middle[i + 1])
           /\ Advance(close, FNaN, FNaN, {i})

\* strategy_rsi(df) at row i of the computed column
BacktestRsi ==
    /\ pc = "loop"
    /\ strategy = "rsi"
    /\ i < n
    /\ LET close == closes[i + 1]
       IN  /\ RsiRow(close, calculate_rsi_df(closes, rsi_period)[i + 1])
           /\ Advance(close, FNaN, FNaN, {i})

\* strategy_ema_crossover(df) at row i of the computed columns
BacktestEmaCrossover ==
    /\ pc = "loop"
    /\ strategy = "ema_crossover"
    /\ i < n
    /\ EmaCrossoverRow(closes[i + 1], calculate_ema_df(closes, 9)[i + 1],
                       calculate_ema_df(closes, 21)[i + 1])

BacktestNext ==
    \/ BacktestBollinger
    \/ BacktestRsi
    \/ BacktestEmaCrossover
    \/ ForcedClose

BacktestSpec == BacktestInit /\ [][BacktestNext]_vars

(***************************************************************************)
(* strategy_combined with the columns of every row it reads kept in        *)
(* df_row, so that a trade can be set against the values that caused it.   *)
(* The closes lie on both sides of EMA_50 and at the 2% stop-loss of an    *)
(* entry at 100; EMA_50 lies on both sides of EMA_200.                     *)
(***************************************************************************)
CombinedRows ==
    {[close |-> close, rsi |-> rsi, bb_lower |-> bb_lower, bb_upper |-> 110,
      ema9 |-> ema9, ema50 |-> ema50, ema200 |-> 100] :
        close \in {98, 100, 110}, rsi \in {20, 50, 80},
        bb_lower \in {95, 100}, ema9 \in {1, 3}, ema50 \in {95, 105}}
    \cup {[close |-> 100, rsi |-> NaN, bb_lower |-> NaN, bb_upper |-> NaN,
            ema9 |-> 3, ema50 |-> 105, ema200 |-> 100]}

CombinedInit ==
    /\ strategy = "combined"
    /\ n \in 1 .. 1 + MaxCombinedRows
    /\ initial_capital \in InitialCapitals
    /\ position_size = ROne
    /\ fee_rate \in FeeRates
    /\ tp_percent = RZero
    /\ sl_percent = RZero
    /\ conditions = <<>>
    /\ pc = "loop"
    /\ i = LoopStart(strategy)
    /\ capital = RInt(initial_capital)
    /\ position = RZero
    /\ entry_price = RZero
    /\ in_position = FALSE
    /\ entry_index = 0
    /\ trades = <<>>
    /\ lastClose = NaN
    /\ prevEma9 = IF n > 1 THEN RInt(2) ELSE FNaN
    /\ prevEma21 = FNaN
    /\ visited = <<>>
    /\ reads = {}
    /\ result = <<>>
    /\ uptrend_entries = <<>>
    /\ sideways_entries = <<>>
    /\ closes = <<>>
    /\ call = <<>>
    /\ df_row = <<>>
    /\ entry_windows = <<>>
    /\ current_window = <<>>
    /\ analysed = <<>>

\* one iteration of the loop of strategy_combined
CombinedWalk ==
    /\ pc = "loop"
    /\ strategy = "combined"
    /\ i < n
    /\ \E r \in CombinedRows :
         /\ CombinedRow(r)
         /\ Proceed(r.close, Float(r.ema9), FNaN, CombinedReads(r))
         /\ df_row' = r

CombinedNext ==
    \/ CombinedWalk
    \/ ForcedClose

CombinedSpec == CombinedInit /\ [][CombinedNext]_vars

(***************************************************************************)
(* analyze_bot_timing: the walk over recent_indices that scores every      *)
(* candle and tracks the windows of consecutive entry signals.  The        *)
(* timestamp of candle idx is modelled by idx.  From index 200 on the      *)
(* three indicators have the rows they need, so "None in [...]" never      *)
(* skips a candle the test idx < 200 lets through.                         *)
(***************************************************************************)
\* recent_indices: consecutive indices, starting below or at 200
RecentIndices ==
    {[k \in 1 .. len |-> first + k - 1] :
        first \in {199, 200}, len \in 1 .. MaxRecent}

\* the indicator values of a candle: the RSI, <<price, bb_upper, bb_lower>>
\* and <<volume, volume_ma5>>
TimingRsis == {10, 20, 33}
TimingBands == {<<92, 110, 90>>, <<100, 110, 90>>, <<100, 100, 100>>}
TimingVolumes == {<<12, 10>>, <<10, 10>>, <<0, 0>>}

\* bb_position = (price - bb_lower) / bb_range if bb_range > 0 else 0.5
BbPosition(price, bb_upper, bb_lower) ==
    LET bb_range == bb_upper - bb_lower
    IN  IF bb_range > 0 THEN Rat(price - bb_lower, bb_range) ELSE <<1, 2>>

\* the window a first entry signal opens
NewWindow(idx, strength, rsi, bb_position) ==
    [start_time |-> idx, end_time |-> idx, start_idx |-> idx, end_idx |-> idx,
     max_strength |-> strength, rsi_range |-> <<rsi, rsi>>,
     bb_range |-> <<bb_position, bb_position>>]

\* the update of the open window with end_idx left as it was
ExtendWindowKeepEnd(w, idx, strength, rsi, bb_position) ==
    [w EXCEPT !.end_time = idx,
              !.max_strength = IF RGt(strength, @) THEN strength ELSE @,
              !.rsi_range[2] = rsi,
              !.bb_range[2] = bb_position]

\* the update of the open window at a further entry signal
ExtendWindow(w, idx, strength, rsi, bb_position) ==
    [w EXCEPT !.end_time = idx,
              !.end_idx = idx,
              !.max_strength = IF RGt(strength, @) THEN strength ELSE @,
              !.rsi_range[2] = rsi,
              !.bb_range[2] = bb_position]

\* current_window is None (no element) or a window (one element)
TimingInit ==
    /\ call \in {[fn |-> "analyze_bot_timing", recent_indices |-> r] :
                    r \in RecentIndices}
    /\ pc = "loop"
    /\ i = 0
    /\ entry_windows = <<>>
    /\ current_window = <<>>
    /\ analysed = <<>>
    /\ result = <<>>
    /\ strategy = "none"
    /\ n = 0
    /\ initial_capital = 0
    /\ position_size = RZero
    /\ fee_rate = RZero
    /\ tp_percent = RZero
    /\ sl_percent = RZero
    /\ conditions = <<>>
    /\ capital = RZero
    /\ position = RZero
    /\ entry_price = RZero
    /\ in_position = FALSE
    /\ entry_index = 0
    /\ trades = <<>>
    /\ lastClose = NaN
    /\ prevEma9 = FNaN
    /\ prevEma21 = FNaN
    /\ visited = <<>>
    /\ reads = {}
    /\ uptrend_entries = <<>>
    /\ sideways_entries = <<>>
    /\ closes = <<>>
    /\ df_row = <<>>

\* "if idx < 200: continue"
TimingContinue ==
    /\ pc = "loop"
    /\ i < Len(call.recent_indices)
    /\ call.recent_indices[i + 1] < 200
    /\ i' = i + 1
    /\ UNCHANGED <<params, df_row, timing, pc, result, locals>>

\* one iteration of the loop at a candle that is scored
TimingAnalyse ==
    /\ pc = "loop"
    /\ i < Len(call.recent_indices)
    /\ call.recent_indices[i + 1] >= 200
    /\ \E rsi \in TimingRsis, bands \in TimingBands, vol \in TimingVolumes :
         LET idx == call.recent_indices[i + 1]
             price == bands[1]
             bb_upper == bands[2]
             bb_lower == bands[3]
             volume == vol[1]
             volume_ma5 == RInt(vol[2])
             volume_ratio == VolumeRatio(volume, volume_ma5)
             bb_position == BbPosition(price, bb_upper, bb_lower)
             score == SidewaysScore(rsi, bb_position, volume_ratio)
             is_entry == score[1]
             strength == score[2]
         IN  /\ IF is_entry
                THEN /\ current_window' =
                          IF current_window = <<>>
                          THEN <<NewWindow(idx, strength, rsi, bb_position)>>
                          ELSE <<ExtendWindow(current_window[1], idx, strength,
                                              rsi, bb_position)>>
                     /\ UNCHANGED entry_windows
                ELSE IF current_window # <<>>
                THEN /\ entry_windows' =
                          Append(entry_windows, current_window[1])
                     /\ current_window' = <<>>
                ELSE UNCHANGED <<entry_windows, current_window>>
             /\ analysed' = Append(analysed, <<idx, is_entry>>)
    /\ i' = i + 1
    /\ UNCHANGED <<params, df_row, pc, result, locals>>

\* after the loop: "if current_window is not None:
\* entry_windows.append(current_window)"
TimingFlush ==
    /\ pc = "loop"
    /\ i >= Len(call.recent_indices)
    /\ entry_windows' = IF current_window # <<>>
                        THEN Append(entry_windows, current_window[1])
                        ELSE entry_windows
    /\ pc' = "flushed"
    /\ UNCHANGED <<params, df_row, current_window, analysed, i, result,
                   locals>>

TimingNext ==
    \/ TimingContinue
    \/ TimingAnalyse
    \/ TimingFlush

TimingSpec == TimingInit /\ [][TimingNext]_vars

(***************************************************************************)
(* Properties.                                                             *)
(***************************************************************************)
Last(ts) == ts[Len(ts)]
Returned == pc # "loop"
IsSimulator == strategy \in Simulators

\* C1: for each of the four strategy_* simulators the trade list alternates
\* BUY, SELL, BUY, SELL, ... starting with a BUY, and once the simulator has
\* returned a non-empty list ends with a SELL.
C1_TradesAlternate ==
    IsSimulator =>
        /\ \A k \in 1 .. Len(trades) :
             trades[k].type = IF k % 2 = 1 THEN "BUY" ELSE "SELL"
        /\ (Returned /\ trades # <<>>) => Last(trades).type = "SELL"

\* a crossover run that bought, sold, bought again and was closed at the end
C1_Witness ==
    /\ strategy = "ema_crossover"
    /\ pc = "done"
    /\ Len(trades) = 4
    /\ Last(trades).timestamp = LastIdx(n)

\* a position is held
Open == RGt(position, RZero)

\* the trades the step appends
Appended == Len(trades') > Len(trades)
FirstNew == trades'[Len(trades) + 1]
InLoopStep == pc = "loop" /\ i' # i

C3_EndsFlat ==
    Returned =>
        /\ IsSimulator => (trades # <<>> => Last(trades).type = "SELL")
        /\ strategy = "analyzer" => ~in_position

\* the index the loop body ran at last
Current == Last(visited)

C5_EntryQuantity ==
    [][(IsSimulator /\ Appended /\ FirstNew.type = "BUY") =>
         LET b == FirstNew
             price == RInt(b.price)
             net == RSub(ROne, fee_rate)
         IN  /\ position = RZero
             /\ b.timestamp = i
             /\ b.price = lastClose'
             /\ b.capital = capital
             /\ b.quantity =
                  RDiv(RMul(RMul(capital, position_size), net), price)
             /\ IF Len(trades') = Len(trades) + 1
                THEN /\ position' = b.quantity
                     /\ entry_price' = price
                     /\ capital' = capital
                ELSE LET x == Last(trades')
                     IN  /\ x.quantity = b.quantity
                         /\ x.profit =
                              RSub(x.capital,
                                   RMul(RMul(price, b.quantity), net))]_vars

\* a combined run holding a position bought with half the capital and a fee
C5_Witness ==
    /\ strategy = "combined"
    /\ fee_rate # RZero
    /\ position_size # ROne
    /\ pc = "loop"
    /\ trades # <<>>
    /\ Last(trades).type = "BUY"
    /\ position = Last(trades).quantity

\* the accounting of the SELL at place k of the trade list
SellAccounting(k) ==
    LET x == trades[k]
        b == trades[k - 1]
        net == RSub(ROne, fee_rate)
    IN  /\ k > 1
        /\ b.type = "BUY"
        /\ x.quantity = b.quantity
        /\ x.capital = RMul(RMul(b.quantity, RInt(x.price)), net)
        /\ x.profit =
             RSub(x.capital, RMul(RMul(RInt(b.price), b.quantity), net))

Analyzed == pc \in {"analyzed", "printed", "KeyError"}

\* the run of the scenario: capital 100000, position_size 1.0, no fee, one
\* BUY at 100 and one SELL at 110
Scenario ==
    /\ IsSimulator
    /\ Analyzed
    /\ initial_capital = 100000
    /\ position_size = ROne
    /\ fee_rate = RZero
    /\ Len(trades) = 2
    /\ trades[1].type = "BUY"
    /\ trades[1].price = 100
    /\ trades[2].type = "SELL"
    /\ trades[2].price = 110

\* C7: in the scenario the SELL's profit is exactly 10000 and the return
\* percentage analyze_trades reports is exactly 10.
C7_Scenario ==
    Scenario =>
        /\ trades[2].profit = RInt(10000)
        /\ result["return_pct"] = RInt(10)

\* the scenario run by strategy_combined
C7_Witness == Scenario /\ strategy = "combined"

\* C8 as stated: after a run without trades the summary holds total_trades,
\* win_rate and profit, all 0, and print_results does not fail on it.
C8_ZeroTradeSummary ==
    (/\ strategy \in Simulators \cup {"analyzer"}
     /\ pc \notin {"loop", "done"}
     /\ trades = <<>>) =>
        /\ {"total_trades", "win_rate", "profit"} \subseteq DOMAIN result
        /\ result["total_trades"] = 0
        /\ result["win_rate"] = RZero
        /\ result["profit"] = RZero
        /\ pc # "KeyError"

\* the places of the SELL trades, and of those with a positive profit
SellIdx == {k \in 1 .. Len(trades) : trades[k].type = "SELL"}
WinIdx == {k \in SellIdx : RGt(trades[k].profit, RZero)}
LastSell == CHOOSE k \in SellIdx : \A j \in SellIdx : j <= k

\* what C9 says of final_capital and profit
FinalCapitalAndProfit ==
    /\ result["final_capital"] =
         IF SellIdx # {} THEN trades[LastSell].capital
         ELSE RInt(initial_capital)
    /\ result["profit"] =
         RSub(result["final_capital"], RInt(initial_capital))

\* C9 as stated: final_capital is the capital of the last SELL (the initial
\* capital without trades), profit = final_capital - initial_capital, and
\* win_rate = (SELL trades with profit > 0) / (SELL trades).
C9_AsStated ==
    (IsSimulator /\ Analyzed) =>
        /\ FinalCapitalAndProfit
        /\ SellIdx # {} =>
             result["win_rate"] =
               Rat(Cardinality(WinIdx), Cardinality(SellIdx))

\* C9 amended: final_capital is the capital of the last SELL (the initial
\* capital without trades), profit = final_capital - initial_capital, and,
\* when a trade executed, win_rate is the percentage
\* 100 * (SELL trades with profit > 0) / (SELL trades).
C9_Reduction ==
    (IsSimulator /\ Analyzed) =>
        /\ FinalCapitalAndProfit
        /\ SellIdx # {} =>
             result["win_rate"] =
               RMul(RInt(100), Rat(Cardinality(WinIdx), Cardinality(SellIdx)))

\* an analysed run with two SELL trades of which one made a profit
C9_Witness ==
    /\ IsSimulator
    /\ Analyzed
    /\ Cardinality(SellIdx) = 2
    /\ Cardinality(WinIdx) = 1
    /\ result["win_rate"] = RInt(50)

RECURSIVE SumPct(_, _)
\* the sum of profit_pct over the first k trades with the given result
SumPct(k, res) ==
    IF k = 0 THEN RZero
    ELSE RAdd(SumPct(k - 1, res),
              IF trades[k].result = res THEN trades[k].profit_pct ELSE RZero)

LossIdx == {k \in 1 .. Len(trades) : trades[k].result = "loss"}

ChangeAt(xs, k) == xs[k] - xs[k - 1]

\* the period changes ending at place k of xs exist and are all losses
OnlyLosses(xs, period, k) ==
    /\ k - period >= 1
    /\ \A j \in k - period + 1 .. k : ChangeAt(xs, j) < 0

\* x is a number between 0 and 100
InRsiRange(x) == IsFinite(x) /\ x[2] > 0 /\ RGe(x, RZero) /\ RLe(x, RInt(100))

\* C11: wherever an RSI is defined it lies in [0, 100], and it is exactly 0
\* when the period changes of its window are all losses; for the list
\* function on every prefix and for every row of the DataFrame column.
C11_RsiRange ==
    /\ (call.fn = "calculate_rsi" /\ i > 0 /\ result # None) =>
         /\ InRsiRange(result)
         /\ OnlyLosses(call.prices, call.period, i) => result = RZero
    /\ (call.fn = "calculate_rsi_df" /\ pc = "return") =>
         \A k \in 1 .. Len(result) :
           ~IsNaN(result[k]) =>
             /\ InRsiRange(result[k])
             /\ OnlyLosses(call.prices, call.period, k) => result[k] = RZero

\* the 25 closes 100, 99, ..., 76 with period 14 gave the RSI 0
C11_Witness ==
    /\ call.fn = "calculate_rsi"
    /\ call.prices = LosingRun
    /\ call.period = 14
    /\ i = 25
    /\ result = RZero

\* the period changes ending at place k of xs exist and none is a loss
NoLoss(xs, period, k) ==
    /\ k - period >= 1
    /\ \A j \in k - period + 1 .. k : ChangeAt(xs, j) >= 0

\* C12 as stated: whenever the average loss of the window is 0, flat
\* windows included, the RSI is exactly 100, in the list function and in
\* the DataFrame column.
C12_ZeroLossIsHundred ==
    /\ (call.fn = "calculate_rsi" /\ i > 0
          /\ NoLoss(call.prices, call.period, i)) =>
         result = RInt(100)
    /\ (call.fn = "calculate_rsi_df" /\ pc = "return") =>
         \A k \in 1 .. Len(result) :
           NoLoss(call.prices, call.period, k) => result[k] = RInt(100)

\* every close of the series is the same
Flat(xs) == \A k \in 1 .. Len(xs) : xs[k] = xs[1]

\* C13 as stated: on a flat series of closes neither strategy_bollinger_bands
\* nor strategy_rsi ever records a BUY, whatever the length of the series.
C13_FlatNeverBuys ==
    (strategy \in {"bollinger_bands", "rsi"} /\ closes # <<>> /\ Flat(closes)) =>
        \A k \in 1 .. Len(trades) : trades[k].type # "BUY"

\* the number of closes an indicator column consulted by simulator s needs
\* before it has a value at a row: 20 for the Bollinger bands, 14 + 1 for
\* the RSI, 21 for the slower EMA of the crossover
ValuesNeeded(s) ==
    CASE s = "bollinger_bands" -> bb_period
      [] s = "rsi" -> rsi_period + 1
      [] s = "ema_crossover" -> 21

\* C14 as stated: a simulator records an entry or an exit at row i only if
\* every indicator it consults there has its warm-up behind it, so that rows
\* with fewer closes than the period needs are skipped.
C14_SkipsUndefined ==
    [][(InLoopStep /\ Appended) => i + 1 >= ValuesNeeded(strategy)]_vars

\* x is a value: neither None nor nan
Defined(x) == x # None /\ ~IsNaN(x)

\* C15 as stated: an indicator has a value at a row only if at least period
\* closes exist up to that row (period + 1 for the RSI); in particular the
\* EMA has none before period values exist, in the list function and in the
\* DataFrame column.
C15_WarmUp ==
    /\ (call.fn \in {"calculate_ema", "calculate_volume_ma"} /\ i > 0
          /\ Defined(result)) => i >= call.period
    /\ (call.fn = "calculate_bollinger_bands" /\ i > 0
          /\ \E j \in 1 .. 3 : Defined(result[j])) => i >= call.period
    /\ (call.fn = "calculate_rsi" /\ i > 0 /\ Defined(result)) =>
         i >= call.period + 1
    /\ (call.fn = "calculate_ema_df" /\ pc = "return") =>
         \A k \in 1 .. Len(result) : Defined(result[k]) => k >= call.period
    /\ (call.fn = "calculate_bollinger_bands_df" /\ pc = "return") =>
         \A k \in 1 .. Len(result.BB_Middle) :
           (Defined(result.BB_Middle[k]) \/ Defined(result.BB_Lower[k])
              \/ Defined(result.BB_Upper[k])) => k >= call.period
    /\ (call.fn = "calculate_rsi_df" /\ pc = "return") =>
         \A k \in 1 .. Len(result) :
           Defined(result[k]) => k >= call.period + 1

\* the volumes at the places lo .. hi of xs are all 0
NoVolume(xs, lo, hi) == \A k \in lo .. hi : xs[k] = 0

\* C16 as stated: whenever the average volume a volume ratio is divided by
\* is 0, the ratio is exactly 1, in the entry backtest and the live check
\* as well as in analyze_volume_profile.
C16_ZeroVolumeRatioIsOne ==
    /\ (call.fn = "volume_ratio" /\ i >= call.period
          /\ NoVolume(call.prices, i - call.period + 1, i)) =>
         result = ROne
    /\ (call.fn = "analyze_volume_profile" /\ pc = "return"
          /\ NoVolume(call.prices, 1, Len(call.prices))) =>
         result.volume_ratio = ROne

\* candle c lacks the field, or holds a value that is not a number
Unusable(c, field) == field \notin DOMAIN c \/ c[field] = Malformed

\* the entry rule conds consults the RSI value kept under either key
Consults(conds, keys) == DOMAIN conds \cap keys # {}

\* C17 as stated: a candle with a missing or malformed field that the run
\* consults (close, high, low, volume, timestamp, or an RSI value an entry
\* rule uses) makes the call raise; no default stands in for the field.
C17_FailsFast ==
    /\ (call.fn = "__init__" /\ pc # "call"
          /\ \E k \in 1 .. Len(call.candle_data), f \in 1 .. Len(CandleFields) :
                Unusable(call.candle_data[k], CandleFields[f])) =>
         result[1] = "raise"
    /\ (call.fn = "_check_entry_conditions" /\ pc # "call" /\ call.index >= 20
          /\ \/ /\ Consults(call.conditions, {"rsi14_min", "rsi14_max"})
                /\ Unusable(call.candle, "rsi14")
                /\ Unusable(call.candle, "rsi_14")
             \/ /\ Consults(call.conditions, {"rsi6_min", "rsi6_max"})
                /\ Unusable(call.candle, "rsi6")
                /\ Unusable(call.candle, "rsi_6")) =>
         result[1] = "raise"

\* the first len prices of the call
Closes_(len) == Take(call.prices, len)

\* ema advanced by one candle: (price - ema) * 2 / (period + 1) + ema
EmaAdvanced(ema, price, period) ==
    RAdd(RMul(RSub(RInt(price), ema), Rat(2, period + 1)), ema)

\* the EMA of the list function is the mean of the first period prices,
\* advanced by one candle at every later index
EmaIsIncremental ==
    (call.fn = "calculate_ema" /\ i >= call.period) =>
        result = IF i = call.period
                 THEN RMean(Floats(Closes_(i)))
                 ELSE EmaAdvanced(calculate_ema(Closes_(i - 1), call.period),
                                  call.prices[i], call.period)

\* C18 as stated: computing an indicator step by step on the prefixes
\* closes[:i+1] and computing it in one batch pass over the DataFrame give
\* the same value at every index where it is defined; the EMA is the mean of
\* the first period values advanced by one candle at a time.
C18_IncrementalIsBatch ==
    /\ EmaIsIncremental
    /\ (call.fn = "calculate_ema_df" /\ pc = "return") =>
         \A k \in call.period .. Len(result) :
            result[k] = calculate_ema(Closes_(k), call.period)
    /\ (call.fn = "calculate_bollinger_bands_df" /\ pc = "return"
          /\ call.period > 1) =>
         \A k \in call.period .. Len(call.prices) :
            <<result.BB_Upper[k], result.BB_Middle[k], result.BB_Lower[k]>> =
               calculate_bollinger_bands(Closes_(k), call.period, bb_std_dev)

\* the conditions of an uptrend and of a downtrend, as fractions of ema50:
\* (price - ema50) / ema50 > 0.5% is (price - ema50) * 200 > ema50
UptrendAt(row) ==
    /\ row.ema50 > row.ema200
    /\ row.price > row.ema50
    /\ (row.price - row.ema50) * 200 > row.ema50
DowntrendAt(row) ==
    /\ row.ema50 < row.ema200
    /\ row.price < row.ema50
    /\ (row.ema50 - row.price) * 200 > row.ema50

\* C19: detect_trend returns uptrend iff ema50 > ema200, price > ema50 and
\* the price is more than 0.5% above ema50, downtrend iff the mirrored
\* condition holds, sideways otherwise; the two conditions never hold
\* together, and the result at a row is that of its own arguments whatever
\* was returned at the row before.
C19_DetectTrend ==
    (call.fn = "detect_trend" /\ i > 0) =>
        LET row == call.rows[i]
        IN  /\ ~(UptrendAt(row) /\ DowntrendAt(row))
            /\ result \in {"uptrend", "downtrend", "sideways"}
            /\ result = "uptrend" <=> UptrendAt(row)
            /\ result = "downtrend" <=> DowntrendAt(row)

\* a downtrend was returned at the row after an uptrend
C19_Witness ==
    /\ call.fn = "detect_trend"
    /\ i = 2
    /\ UptrendAt(call.rows[1])
    /\ result = "downtrend"

\* the number of conditions of the returned dictionary that hold
Holding(conds) == Cardinality({key \in DOMAIN conds : conds[key]})

\* C20: check_uptrend_entry picks the tier of the RSI, the first tier that
\* matches (RSI <= 30: size 1.0, SL 5.0, TP 3.0; <= 35: 0.5, 4.0, 2.0;
\* <= 40: 0.25, 3.0, 1.5); above 40 it returns no entry with strength, size,
\* SL and TP all 0; within a tier the strength is the share of its 4
\* conditions that hold and the entry is signalled iff at least 3 hold.
C20_UptrendTiers ==
    (call.fn = "check_uptrend_entry" /\ pc = "return") =>
        IF call.rsi > 40
        THEN /\ result[1] = FALSE
             /\ result[2] = RZero
             /\ <<result[4], result[5], result[6]>> = <<RZero, RZero, RZero>>
        ELSE /\ <<result[4], result[5], result[6]>> =
                  IF call.rsi <= 30 THEN <<ROne, RInt(5), RInt(3)>>
                  ELSE IF call.rsi <= 35 THEN <<(<<1, 2>>), RInt(4), RInt(2)>>
                  ELSE <<(<<1, 4>>), RInt(3), (<<3, 2>>)>>
             /\ Cardinality(DOMAIN result[3]) = 4
             /\ result[2][1] * 4 = Holding(result[3]) * result[2][2]
             /\ result[1] <=> Holding(result[3]) >= 3
             /\ result[1] <=> RGe(result[2], <<3, 4>>)

\* an RSI of 31 entered at half size with exactly 3 of the 4 conditions
C20_Witness ==
    /\ call.fn = "check_uptrend_entry"
    /\ pc = "return"
    /\ call.rsi = 31
    /\ result[1] = TRUE
    /\ Holding(result[3]) = 3
    /\ result[4] = <<1, 2>>

\* the weight of a sub-condition, counted when it holds
Weight(holds, w) == IF holds THEN w ELSE RZero

\* C21: check_sideways_entry rejects every RSI above 32 at once (no entry,
\* strength 0); otherwise the strength is the sum of the weights 0.35 (near
\* the lower band), 0.25 (oversold), 0.2 (not extreme), 0.2 (volume spike)
\* of the sub-conditions that hold, it lies in [0, 1], and the entry is
\* signalled iff it is at least 0.8.
C21_SidewaysStrength ==
    (call.fn = "check_sideways_entry" /\ pc = "return") =>
        IF call.rsi > 32
        THEN result[1] = FALSE /\ result[2] = RZero
        ELSE LET conds == result[3]
                 strength == result[2]
             IN  /\ DOMAIN conds = {"near_lower_band", "deeply_oversold",
                                    "not_extreme", "volume_spike"}
                 /\ strength =
                      RAdd(RAdd(Weight(conds.near_lower_band, <<35, 100>>),
                                Weight(conds.deeply_oversold, <<25, 100>>)),
                           RAdd(Weight(conds.not_extreme, <<20, 100>>),
                                Weight(conds.volume_spike, <<20, 100>>)))
                 /\ RGe(strength, RZero) /\ RLe(strength, ROne)
                 /\ result[1] <=> RGe(strength, <<8, 10>>)

\* an entry at strength exactly 0.8: band, oversold and volume, RSI extreme
C21_Witness ==
    /\ call.fn = "check_sideways_entry"
    /\ pc = "return"
    /\ call.rsi = 14
    /\ result[1] = TRUE
    /\ result[2] = <<4, 5>>

\* what the gated evaluator returns for the arguments of the current call
Gated == check_sideways_entry(call.rsi, call.bb_position, call.volume_ratio)

\* C27: for every input the un-gated evaluators (check_sideways_conditions
\* and the scoring written out in analyze_bot_timing) return the entry
\* decision of the gated check_sideways_entry; the strengths differ only when
\* the RSI is above 32.
C27_GateIsRedundant ==
    (/\ call.fn \in {"check_sideways_conditions", "analyze_bot_timing"}
     /\ pc = "return") =>
        /\ result[1] = Gated[1]
        /\ result[2] # Gated[2] => call.rsi > 32

\* an RSI above the gate with the three other conditions: the un-gated
\* evaluator reports strength 0.75 and no entry, the gated one strength 0
C27_Witness ==
    /\ call.fn = "check_sideways_conditions"
    /\ pc = "return"
    /\ call.rsi = 33
    /\ result[1] = FALSE
    /\ result[2] = <<3, 4>>
    /\ Gated[2] = RZero

\* C28: check_sideways_entry signals the entry iff rsi <= 32, bb_position
\* < 0.4 and (rsi >= 15 or volume_ratio >= 1.1); without the lower band
\* a volume spike and a non-extreme oversold RSI do not suffice.
C28_EntryClosedForm ==
    (call.fn = "check_sideways_entry" /\ pc = "return") =>
        (result[1] <=>
            /\ call.rsi <= 32
            /\ RLt(call.bb_position, <<4, 10>>)
            /\ call.rsi >= 15 \/ RGe(call.volume_ratio, <<11, 10>>))

\* oversold, not extreme, volume spike, but at the band limit: strength 0.65,
\* no entry
C28_Witness ==
    /\ call.fn = "check_sideways_entry"
    /\ pc = "return"
    /\ call.rsi = 20
    /\ call.bb_position = <<2, 5>>
    /\ call.volume_ratio = <<6, 5>>
    /\ result[1] = FALSE
    /\ result[2] = <<13, 20>>

\* a step of the crossover loop at a row whose two EMAs are defined; the
\* EMAs of the row are the ones the step leaves in prevEma9 and prevEma21
CrossoverVisit ==
    /\ strategy = "ema_crossover"
    /\ InLoopStep
    /\ ~IsNaN(prevEma9') /\ ~IsNaN(prevEma21')

\* the step records exactly one trade, of this type, at the current row
Records(type) ==
    /\ Len(trades') = Len(trades) + 1
    /\ FirstNew.type = type
    /\ FirstNew.timestamp = i

\* C22: strategy_ema_crossover buys, when flat, exactly at a row where the
\* fast EMA was <= the slow one at the row before and is > it now, and sells,
\* when long, exactly at a row where it was >= and is < now; every other
\* visited row leaves position, capital and trade list as they are.
C22_CrossoverTrades ==
    [][CrossoverVisit =>
         LET up == Le(prevEma9, prevEma21) /\ Gt(prevEma9', prevEma21')
             down == Ge(prevEma9, prevEma21) /\ Lt(prevEma9', prevEma21')
         IN  /\ Records("BUY") <=> (position = RZero /\ up)
             /\ Records("SELL") <=> (Open /\ down)
             /\ Records("BUY") => Open'
             /\ Records("SELL") => position' = RZero
             /\ ~Records("BUY") /\ ~Records("SELL") =>
                  UNCHANGED <<position, capital, entry_price, trades>>]_vars

\* a crossover run that bought at row 1 and sold at row 2 on the two crosses
C22_Witness ==
    /\ strategy = "ema_crossover"
    /\ pc = "loop"
    /\ i = 3
    /\ Len(trades) = 2
    /\ trades[1].type = "BUY" /\ trades[1].timestamp = 1
    /\ trades[2].type = "SELL" /\ trades[2].timestamp = 2
    /\ prevEma9 = RInt(1)

\* a step of the loop of strategy_combined at a row that is not skipped; the
\* row is the one the step leaves in df_row
CombinedVisit ==
    /\ strategy = "combined"
    /\ InLoopStep
    /\ df_row'.rsi # NaN /\ df_row'.bb_lower # NaN
    /\ df_row'.ema50 # NaN /\ df_row'.ema200 # NaN

\* the step records a BUY, a SELL
Bought == Appended /\ FirstNew.type = "BUY"
Sold == Appended /\ Last(trades').type = "SELL"

\* a position is held when the exit test of the step is reached
LongAtExitTest == Open \/ Bought

\* the causes of an entry and of an exit at the row of the step
RsiLow == df_row'.rsi < 35
AtLowerBand == df_row'.close * 1000 <= df_row'.bb_lower * 1002
FastEmaRising == Gt(RInt(df_row'.ema9), prevEma9)
RsiHigh == df_row'.rsi > 65
AtUpperBand == df_row'.close * 1000 >= df_row'.bb_upper * 998
StopLoss ==
    LET entry == IF Bought THEN RInt(df_row'.close) ELSE entry_price
    IN  RLe(RInt(df_row'.close), RMul(entry, <<98, 100>>))

\* the regime of the row: as the Trend Classifier has it, and as the filter
\* of strategy_combined has it
ClassifiedUptrend ==
    UptrendAt([ema50 |-> df_row'.ema50, ema200 |-> df_row'.ema200,
               price |-> df_row'.close])
FilterUptrend == df_row'.ema50 > df_row'.ema200

\* entries and exits of a visited row, for a given reading of "uptrend"
EntersAndExits(uptrend) ==
    /\ Bought => /\ ~Open
                 /\ uptrend
                 /\ RsiLow \/ AtLowerBand
                 /\ FastEmaRising
    /\ LongAtExitTest =>
         /\ Sold <=> (RsiHigh \/ AtUpperBand \/ StopLoss \/ ~uptrend)
         /\ Sold => position' = RZero
         /\ ~Sold => Open'

\* C23 as stated: strategy_combined enters only in the uptrend regime of the
\* Trend Classifier, with (RSI < 35 or close <= lower band * 1.002) and a
\* rising fast EMA; while long it exits at the first visited row with RSI >
\* 65, close >= upper band * 0.998, the stop-loss hit or a regime other than
\* uptrend, and stays long at every other visited row.
C23_AsStated == [][CombinedVisit => EntersAndExits(ClassifiedUptrend)]_vars

\* C23 amended: the same with the regime read as the filter EMA_50 > EMA_200
\* alone, the price not being looked at; a position opened at a row is
\* already subject to the exit test of that row.
C23_FilteredEntriesAndExits ==
    [][CombinedVisit => EntersAndExits(FilterUptrend)]_vars

\* bought at row 1 with the close below EMA_50 (sideways for the Trend
\* Classifier), stopped out at row 2 at 98
C23_Witness ==
    /\ strategy = "combined"
    /\ pc = "loop"
    /\ Len(trades) = 2
    /\ trades[1].type = "BUY" /\ trades[1].timestamp = 1
    /\ trades[1].price = 100
    /\ trades[2].type = "SELL" /\ trades[2].timestamp = 2
    /\ trades[2].exit_reason = "STOP_LOSS"
    /\ df_row.close = 98 /\ df_row.ema50 = 105 /\ df_row.rsi = 50

\* C24: every SELL strategy_combined records inside its loop carries one
\* exit_reason, the first of TREND_REVERSAL, STOP_LOSS, RSI, BB whose cause
\* holds at that row; END is recorded by the forced close after the loop and
\* by it alone.
C24_ExitReason ==
    [][/\ (CombinedVisit /\ Sold) =>
            LET sell == Last(trades')
            IN  /\ "exit_reason" \in DOMAIN sell
                /\ sell.exit_reason =
                     IF ~FilterUptrend THEN "TREND_REVERSAL"
                     ELSE IF StopLoss THEN "STOP_LOSS"
                     ELSE IF RsiHigh THEN "RSI"
                     ELSE "BB"
                /\ sell.exit_reason = "BB" => AtUpperBand
       /\ (strategy = "combined" /\ pc = "loop" /\ i' = i /\ Appended) =>
            /\ Len(trades') = Len(trades) + 1
            /\ Last(trades').type = "SELL"
            /\ Last(trades').exit_reason = "END"]_vars

\* a SELL at 98 after a BUY at 100 with EMA_50 below EMA_200 and an RSI of
\* 80: three causes hold, TREND_REVERSAL is recorded
C24_Witness ==
    /\ strategy = "combined"
    /\ pc = "loop"
    /\ Len(trades) = 2
    /\ trades[1].price = 100
    /\ trades[2].exit_reason = "TREND_REVERSAL"
    /\ df_row.close = 98 /\ df_row.ema50 = 95 /\ df_row.rsi = 80

\* C25: in every run of a strategy_* simulator each SELL is recorded at a
\* candle index strictly greater than the index of the BUY before it, so no
\* position is opened and closed on the same candle.
C25_SellAfterBuy ==
    IsSimulator =>
        \A k \in 1 .. Len(trades) :
            trades[k].type = "SELL" =>
                /\ k > 1
                /\ trades[k - 1].type = "BUY"
                /\ trades[k].timestamp > trades[k - 1].timestamp

RECURSIVE SumProfit(_)
\* the sum of the profit fields of the SELL trades among the first k trades
SumProfit(k) ==
    IF k = 0 THEN RZero
    ELSE RAdd(SumProfit(k - 1),
              IF trades[k].type = "SELL" THEN trades[k].profit ELSE RZero)

\* C26: for every run of a simulator without fees, whatever the
\* position_size in (0, 1], the profits of the SELL trades add up to
\* final_capital - initial_capital as analyze_trades reports it, and a BUY
\* followed by a SELL at the same price leaves the capital as it was.
C26_ProfitsSumToCapital ==
    (strategy \in {"bollinger_bands", "rsi", "ema_crossover"} /\ Analyzed) =>
        /\ SumProfit(Len(trades)) =
             RSub(result["final_capital"], RInt(initial_capital))
        /\ \A k \in SellIdx :
             trades[k].price = trades[k - 1].price =>
                 trades[k].capital = trades[k - 1].capital

\* the profit of the open position at the candle the step reads, in percent
PctAtStep ==
    RMul(RDiv(RSub(RInt(lastClose'), entry_price), entry_price), RInt(100))

\* C29: in backtest_strategy a trade is a 'win' iff its profit_pct >=
\* tp_percent and a 'loss' iff its profit_pct <= -sl_percent, the returned
\* wins and losses add up to total_trades, every trade has bars_held >= 1,
\* and while a position is open no entry is taken: the step either records
\* the exit that its profit calls for or leaves everything as it is.
C29_TradesClassified ==
    /\ [](strategy = "analyzer" =>
            /\ \A k \in 1 .. Len(trades) :
                 LET t == trades[k]
                 IN  /\ t.result \in {"win", "loss"}
                     /\ t.result = "win" <=> RGe(t.profit_pct, tp_percent)
                     /\ t.result = "loss" <=>
                          RLe(t.profit_pct, RNeg(sl_percent))
                     /\ t.bars_held >= 1
            /\ (Returned /\ trades # <<>>) =>
                 /\ result["total_trades"] = Len(trades)
                 /\ result["wins"] + result["losses"] = result["total_trades"])
    /\ [][(strategy = "analyzer" /\ InLoopStep) =>
            IF in_position
            THEN /\ UNCHANGED <<entry_price, entry_index>>
                 /\ Appended <=> (\/ RGe(PctAtStep, tp_percent)
                                  \/ RLe(PctAtStep, RNeg(sl_percent)))
                 /\ Appended =>
                      /\ ~in_position'
                      /\ Len(trades') = Len(trades) + 1
                      /\ FirstNew.profit_pct = PctAtStep
                      /\ FirstNew.bars_held = i - entry_index
                 /\ ~Appended => in_position'
            ELSE /\ UNCHANGED trades
                 /\ in_position' => entry_index' = i]_vars

\* a position entered at 100 and held over a candle at 100 (neither take-
\* profit nor stop-loss) before it is closed: bars_held is 2
C29_Witness ==
    /\ strategy = "analyzer"
    /\ Returned
    /\ Len(trades) = 1
    /\ trades[1].bars_held = 2
    /\ trades[1].result = "loss"
    /\ sl_percent # RZero
    /\ result["losses"] = 1

\* the candles scored so far, those with an entry signal, and the candles
\* of a window
AnalysedIdx == {analysed[k][1] : k \in 1 .. Len(analysed)}
EntryIdx ==
    {analysed[k][1] : k \in {j \in 1 .. Len(analysed) : analysed[j][2]}}
Covers(w, idx) == w.start_idx <= idx /\ idx <= w.end_idx

\* the windows recorded so far, with the open one while the walk goes on
\* (the flush appends it and leaves current_window as it is)
Windows ==
    IF pc = "loop" THEN entry_windows \o current_window ELSE entry_windows

\* C30: the windows of analyze_bot_timing partition the entry signals: every
\* scored candle with an entry signal lies in exactly one window, a window
\* has start_idx <= end_idx and holds no scored candle without a signal,
\* windows are disjoint and recorded in increasing order, a window is closed
\* at the first scored candle without a signal after it opened (the scored
\* candle after its end has no signal), and the window left open at the end
\* of the data is appended once by the final flush.
C30_WindowsPartitionEntries ==
    call.fn = "analyze_bot_timing" =>
        /\ \A k \in 1 .. Len(Windows) :
             LET w == Windows[k]
             IN  /\ w.start_idx <= w.end_idx
                 /\ \A idx \in AnalysedIdx :
                      Covers(w, idx) => idx \in EntryIdx
                 /\ w.start_idx \in EntryIdx /\ w.end_idx \in EntryIdx
                 /\ (w.end_idx + 1) \notin EntryIdx
                 /\ k < Len(Windows) => w.end_idx < Windows[k + 1].start_idx
        /\ pc = "loop" =>
             /\ \A idx \in EntryIdx :
                  Cardinality({k \in 1 .. Len(Windows) :
                                 Covers(Windows[k], idx)}) = 1
             /\ current_window # <<>> <=>
                  (analysed # <<>> /\ Last(analysed)[2])
        /\ pc = "flushed" =>
             \A idx \in EntryIdx :
                 Cardinality({k \in 1 .. Len(entry_windows) :
                                Covers(entry_windows[k], idx)}) = 1

\* two windows after the flush: signals at 200 and 201, none at 202, a signal
\* at 203 whose window was still open at the end of the data
C30_Witness ==
    /\ call.fn = "analyze_bot_timing"
    /\ pc = "flushed"
    /\ Len(entry_windows) = 2
    /\ entry_windows[1].start_idx = 200 /\ entry_windows[1].end_idx = 201
    /\ entry_windows[2].start_idx = 203 /\ entry_windows[2].end_idx = 203

====
